---- MODULE Spec2Model ----
(***************************************************************************)
(* Model of the trust-establishment pipeline of tpm-trust: the EK          *)
(* certificate checker (package validate), its downloader and the CRL      *)
(* wrapper (package crl).                                                  *)
(*                                                                         *)
(* One run of ekchecker.Check is a sequence of steps; the HTTP server, the *)
(* clock and the trusted bundle are the environment, and answer each call  *)
(* nondeterministically.  Every client.Do call and every call on a CRL or  *)
(* on the trusted bundle is appended to the history variable trace.        *)
(***************************************************************************)
EXTENDS Integers, Sequences, FiniteSets

\* ------------------------------------------------------------------------
\* Bounds of the model
\* ------------------------------------------------------------------------
\* longest IssuingCertificateURL / CRLDistributionPoints list of an EK
MaxUrls == 2
\* longest RevokedCertificateEntries list of a revocation list
MaxRevoked == 2
\* the longest slice handed to Filter
MaxLen == 3
\* the re-executions after which no further process is started
MaxExecs == 3

\* ------------------------------------------------------------------------
\* Values
\* ------------------------------------------------------------------------
Range(s) == {s[i] : i \in 1..Len(s)}

SeqsUpTo(S, n) == UNION {[1..k -> S] : k \in 0..n}

\* the OID of the TCG EK Credential Profile
EKCertificate == <<2, 23, 133, 8, 1>>

\* http.StatusOK
StatusOK == 200

\* the URL strings met in the certificates of the model: two of the supported
\* schemes, one of an unsupported scheme, and one that url.Parse rejects
\* ("missing protocol scheme")
URLS == {"http://pki/a", "https://pki/b", "ldap://pki/c", ":bad"}

\* url.Parse: the error and the Scheme field of the parsed URL
ParseURL(u) ==
    CASE u = "http://pki/a"  -> [err |-> FALSE, Scheme |-> "http"]
      [] u = "https://pki/b" -> [err |-> FALSE, Scheme |-> "https"]
      [] u = "ldap://pki/c"  -> [err |-> FALSE, Scheme |-> "ldap"]
      [] OTHER               -> [err |-> TRUE, Scheme |-> ""]

\* serial numbers: the one of the EK certificate and another one
Serials == {1, 2}

\* instants: ThisUpdate and NextUpdate of a list lie before, at or after the
\* instant time.Now() returns
Times == 0..2
Clock == {1}

\* the signing keys of the certificate authorities
Keys == {"caA", "caB"}

\* errors: the outermost message or sentinel, and the error it wraps
Err(kind, cause) == [kind |-> kind, cause |-> cause, n |-> 0, max |-> 0]
Nil == Err("nil", "")

ErrUntrustedCertificate == "EK certificate trust could not be established"
ErrCertificateRevoked == "certificate is revoked"
ErrEKCannotBeCA == "EK certificate cannot be a CA certificate"
ErrDownloaderDisabled == "downloader is disabled"
ErrCrlIsExpired == "CRL is expired"
ErrCrlNotYetValid == "CRL is not yet valid"
ErrUnknownAuthorityError == "CRL signed by unknown authority"
ErrCrlCannotBeNil == "CRL cannot be nil"

\* a nil *x509.Certificate, a nil crl.CRL
NoCert == [nil |-> TRUE]
NoCRL == [nil |-> TRUE]

\* the EK certificates a run is given
EKCerts ==
    [IsCA : BOOLEAN,
     IssuingCertificateURL : SeqsUpTo(URLS, MaxUrls),
     CRLDistributionPoints : SeqsUpTo(URLS, MaxUrls),
     UnknownExtKeyUsage : {<<>>, <<(<<2, 5, 29, 37, 0>>), EKCertificate>>},
     SerialNumber : {1}]

\* what an HTTP endpoint can serve
IssuerCerts == [PublicKey : Keys]
RevocationLists ==
    [ThisUpdate : Times, NextUpdate : Times, SignedBy : Keys,
     RevokedCertificateEntries : SeqsUpTo(Serials, MaxRevoked)]

Garbage == [type |-> "garbage", val |-> <<>>]
CertBodies == {[type |-> "cert", val |-> c] : c \in IssuerCerts}
CRLBodies == {[type |-> "crl", val |-> rl] : rl \in RevocationLists}

\* the outcome of client.Do and of reading the body
Responses(bodies) ==
    {[doErr |-> TRUE, StatusCode |-> 0, readErr |-> FALSE, body |-> Garbage],
     [doErr |-> FALSE, StatusCode |-> 404, readErr |-> FALSE, body |-> Garbage],
     [doErr |-> FALSE, StatusCode |-> StatusOK, readErr |-> TRUE, body |-> Garbage]}
    \cup {[doErr |-> FALSE, StatusCode |-> StatusOK, readErr |-> FALSE, body |-> b] :
            b \in bodies \cup {Garbage}}

\* the answers of TrustedBundle.VerifyCertificate: nil or a diagnostic
AnchorVerdicts == {"nil", "x509: certificate signed by unknown authority"}

\* ------------------------------------------------------------------------
\* package crl
\* ------------------------------------------------------------------------
\* IsValid that takes the instant NextUpdate for expired already
IsValid_ExpiredAtNextUpdate(c, now) ==
    IF now >= c.NextUpdate THEN ErrCrlIsExpired
    ELSE IF now < c.ThisUpdate THEN ErrCrlNotYetValid
    ELSE "nil"

IsValid(c, now) ==
    IF now > c.NextUpdate THEN ErrCrlIsExpired
    ELSE IF now < c.ThisUpdate THEN ErrCrlNotYetValid
    ELSE "nil"

NewCRL(rl, now) ==
    IF rl = NoCRL THEN [crl |-> NoCRL, err |-> ErrCrlCannotBeNil]
    ELSE IF IsValid(rl, now) # "nil" THEN [crl |-> NoCRL, err |-> IsValid(rl, now)]
    ELSE [crl |-> rl, err |-> "nil"]

\* CheckSignatureFrom(cert) succeeds when cert holds the key that signed the list
RECURSIVE VerifyFrom(_, _, _)
VerifyFrom(c, certs, i) ==
    IF i > Len(certs) THEN ErrUnknownAuthorityError
    ELSE IF c.SignedBy = certs[i].PublicKey THEN "nil"
    ELSE VerifyFrom(c, certs, i + 1)

\* Verify that tries the first candidate only
Verify_FirstCandidateOnly(c, certs) ==
    IF Len(certs) > 0 /\ c.SignedBy = certs[1].PublicKey
    THEN "nil"
    ELSE ErrUnknownAuthorityError

Verify(c, certs) == VerifyFrom(c, certs, 1)

\* IsRevoked that looks at the first entry only
IsRevoked_FirstEntryOnly(c, cert) ==
    /\ Len(c.RevokedCertificateEntries) > 0
    /\ c.RevokedCertificateEntries[1] = cert.SerialNumber

\* IsRevoked that looks at the last entry only
IsRevoked_LastEntryOnly(c, cert) ==
    /\ Len(c.RevokedCertificateEntries) > 0
    /\ c.RevokedCertificateEntries[Len(c.RevokedCertificateEntries)] = cert.SerialNumber

RECURSIVE IsRevokedFrom(_, _, _)
IsRevokedFrom(c, cert, i) ==
    IF i > Len(c.RevokedCertificateEntries) THEN FALSE
    ELSE IF c.RevokedCertificateEntries[i] = cert.SerialNumber THEN TRUE
    ELSE IsRevokedFrom(c, cert, i + 1)

IsRevoked(c, cert) == IsRevokedFrom(c, cert, 1)

\* ------------------------------------------------------------------------
\* package validate: the downloader
\* ------------------------------------------------------------------------
\* each result says whether client.Do was called (requested) and how the
\* request ended (res)

\* downloadCRLSigner without the check of the status code
downloadCRLSigner_AnyStatus(d, resp) ==
    IF ~d.enabled
    THEN [cert |-> NoCert, err |-> ErrDownloaderDisabled, requested |-> FALSE, res |-> ""]
    ELSE IF resp.doErr
    THEN [cert |-> NoCert, err |-> "failed retrieving certificate", requested |-> TRUE,
          res |-> "transport"]
    ELSE IF resp.readErr
    THEN [cert |-> NoCert, err |-> "failed reading CRL response body", requested |-> TRUE,
          res |-> "read"]
    ELSE IF resp.body.type # "cert"
    THEN [cert |-> NoCert, err |-> "failed parsing certificate", requested |-> TRUE,
          res |-> "parse"]
    ELSE [cert |-> resp.body.val, err |-> "nil", requested |-> TRUE, res |-> "ok"]

downloadCRLSigner(d, resp) ==
    IF ~d.enabled
    THEN [cert |-> NoCert, err |-> ErrDownloaderDisabled, requested |-> FALSE, res |-> ""]
    ELSE IF resp.doErr
    THEN [cert |-> NoCert, err |-> "failed retrieving certificate", requested |-> TRUE,
          res |-> "transport"]
    ELSE IF resp.StatusCode # StatusOK
    THEN [cert |-> NoCert, err |-> "http request failed with status", requested |-> TRUE,
          res |-> "status"]
    ELSE IF resp.readErr
    THEN [cert |-> NoCert, err |-> "failed reading CRL response body", requested |-> TRUE,
          res |-> "read"]
    ELSE IF resp.body.type # "cert"
    THEN [cert |-> NoCert, err |-> "failed parsing certificate", requested |-> TRUE,
          res |-> "parse"]
    ELSE [cert |-> resp.body.val, err |-> "nil", requested |-> TRUE, res |-> "ok"]

\* downloadCRL that answers a disabled downloader as downloadCRLSigner does
downloadCRL_DisabledIsAnError(d, resp, now) ==
    IF ~d.enabled
    THEN [crl |-> NoCRL, err |-> ErrDownloaderDisabled, requested |-> FALSE, res |-> "",
          parsed |-> NoCRL]
    ELSE IF resp.doErr
    THEN [crl |-> NoCRL, err |-> "failed retrieving CRL", requested |-> TRUE,
          res |-> "transport", parsed |-> NoCRL]
    ELSE IF resp.StatusCode # StatusOK
    THEN [crl |-> NoCRL, err |-> "http request failed with status", requested |-> TRUE,
          res |-> "status", parsed |-> NoCRL]
    ELSE IF resp.readErr
    THEN [crl |-> NoCRL, err |-> "failed reading CRL response body", requested |-> TRUE,
          res |-> "read", parsed |-> NoCRL]
    ELSE IF resp.body.type # "crl"
    THEN [crl |-> NoCRL, err |-> "failed parsing CRL", requested |-> TRUE,
          res |-> "parse", parsed |-> NoCRL]
    ELSE LET n == NewCRL(resp.body.val, now)
         IN  [crl |-> n.crl, err |-> n.err, requested |-> TRUE, res |-> "ok",
              parsed |-> resp.body.val]

\* parsed is the list x509.ParseRevocationList returned, if the call got that far
downloadCRL(d, resp, now) ==
    IF ~d.enabled
    THEN [crl |-> NoCRL, err |-> "nil", requested |-> FALSE, res |-> "", parsed |-> NoCRL]
    ELSE IF resp.doErr
    THEN [crl |-> NoCRL, err |-> "failed retrieving CRL", requested |-> TRUE,
          res |-> "transport", parsed |-> NoCRL]
    ELSE IF resp.StatusCode # StatusOK
    THEN [crl |-> NoCRL, err |-> "http request failed with status", requested |-> TRUE,
          res |-> "status", parsed |-> NoCRL]
    ELSE IF resp.readErr
    THEN [crl |-> NoCRL, err |-> "failed reading CRL response body", requested |-> TRUE,
          res |-> "read", parsed |-> NoCRL]
    ELSE IF resp.body.type # "crl"
    THEN [crl |-> NoCRL, err |-> "failed parsing CRL", requested |-> TRUE,
          res |-> "parse", parsed |-> NoCRL]
    ELSE LET n == NewCRL(resp.body.val, now)
         IN  [crl |-> n.crl, err |-> n.err, requested |-> TRUE, res |-> "ok",
              parsed |-> resp.body.val]

\* ------------------------------------------------------------------------
\* package validate: the checker
\* ------------------------------------------------------------------------
CheckAndSetDefaults(c) ==
    IF c.EK = NoCert THEN "EK certificate must be provided" ELSE "nil"

RECURSIVE FoundEKOID(_, _)
FoundEKOID(usages, i) ==
    IF i > Len(usages) THEN FALSE
    ELSE IF usages[i] = EKCertificate THEN TRUE
    ELSE FoundEKOID(usages, i + 1)

\* checkSwitch without the case of the CA flag
checkSwitch_NoCACase(c, d) ==
    IF Len(c.EK.IssuingCertificateURL) = 0
    THEN Err("EK certificate does not contain AIA extension", "")
    ELSE IF Len(c.EK.IssuingCertificateURL) > d.maxDownloads
    THEN [kind |-> "number of Issuers bigger than the maximum", cause |-> "",
          n |-> Len(c.EK.CRLDistributionPoints), max |-> d.maxDownloads]
    ELSE IF ~c.SkipRevocationCheck /\ Len(c.EK.CRLDistributionPoints) > d.maxDownloads
    THEN [kind |-> "number of CRLs bigger than the maximum", cause |-> "",
          n |-> Len(c.EK.CRLDistributionPoints), max |-> d.maxDownloads]
    ELSE Nil

\* checkSwitch with the case of the missing issuer URL ahead of the CA flag
checkSwitch_AIAFirst(c, d) ==
    IF Len(c.EK.IssuingCertificateURL) = 0
    THEN Err("EK certificate does not contain AIA extension", "")
    ELSE IF c.EK.IsCA
    THEN Err(ErrEKCannotBeCA, "")
    ELSE IF Len(c.EK.IssuingCertificateURL) > d.maxDownloads
    THEN [kind |-> "number of Issuers bigger than the maximum", cause |-> "",
          n |-> Len(c.EK.CRLDistributionPoints), max |-> d.maxDownloads]
    ELSE IF ~c.SkipRevocationCheck /\ Len(c.EK.CRLDistributionPoints) > d.maxDownloads
    THEN [kind |-> "number of CRLs bigger than the maximum", cause |-> "",
          n |-> Len(c.EK.CRLDistributionPoints), max |-> d.maxDownloads]
    ELSE Nil

\* checkSwitch with a CRL ceiling that does not look at SkipRevocationCheck
checkSwitch_CrlCeilingAlways(c, d) ==
    IF c.EK.IsCA
    THEN Err(ErrEKCannotBeCA, "")
    ELSE IF Len(c.EK.IssuingCertificateURL) = 0
    THEN Err("EK certificate does not contain AIA extension", "")
    ELSE IF Len(c.EK.IssuingCertificateURL) > d.maxDownloads
    THEN [kind |-> "number of Issuers bigger than the maximum", cause |-> "",
          n |-> Len(c.EK.CRLDistributionPoints), max |-> d.maxDownloads]
    ELSE IF Len(c.EK.CRLDistributionPoints) > d.maxDownloads
    THEN [kind |-> "number of CRLs bigger than the maximum", cause |-> "",
          n |-> Len(c.EK.CRLDistributionPoints), max |-> d.maxDownloads]
    ELSE Nil

\* check, the switch of lines 154-164: the error of the first case that holds,
\* Nil when none does.  The message of the issuer ceiling prints
\* len(CRLDistributionPoints), as the one of the CRL ceiling does.
checkSwitch(c, d) ==
    IF c.EK.IsCA
    THEN Err(ErrEKCannotBeCA, "")
    ELSE IF Len(c.EK.IssuingCertificateURL) = 0
    THEN Err("EK certificate does not contain AIA extension", "")
    ELSE IF Len(c.EK.IssuingCertificateURL) > d.maxDownloads
    THEN [kind |-> "number of Issuers bigger than the maximum", cause |-> "",
          n |-> Len(c.EK.CRLDistributionPoints), max |-> d.maxDownloads]
    ELSE IF ~c.SkipRevocationCheck /\ Len(c.EK.CRLDistributionPoints) > d.maxDownloads
    THEN [kind |-> "number of CRLs bigger than the maximum", cause |-> "",
          n |-> Len(c.EK.CRLDistributionPoints), max |-> d.maxDownloads]
    ELSE Nil

\* check that rejects a certificate without distribution point
check_RejectMissingCRLDP(c, d) ==
    IF checkSwitch(c, d) # Nil
    THEN [err |-> checkSwitch(c, d), cfg |-> c]
    ELSE IF Len(c.EK.CRLDistributionPoints) = 0
    THEN [err |-> Err("missing CRL DP", ""), cfg |-> c]
    ELSE IF ~FoundEKOID(c.EK.UnknownExtKeyUsage, 1)
    THEN [err |-> Err("EK certificate does not contain the required EK OID", ""), cfg |-> c]
    ELSE [err |-> Nil, cfg |-> c]

\* check: the error returned, and cfg as check leaves it
check(c, d) ==
    IF checkSwitch(c, d) # Nil
    THEN [err |-> checkSwitch(c, d), cfg |-> c]
    ELSE LET c2 == IF Len(c.EK.CRLDistributionPoints) = 0
                   THEN [c EXCEPT !.SkipRevocationCheck = TRUE]
                   ELSE c
         IN  IF ~FoundEKOID(c.EK.UnknownExtKeyUsage, 1)
             THEN [err |-> Err("EK certificate does not contain the required EK OID", ""),
                   cfg |-> c2]
             ELSE [err |-> Nil, cfg |-> c2]

\* prepareUrls that fails on a scheme it does not support
RECURSIVE prepareUrlsFrom_RejectUnsupported(_, _, _)
prepareUrlsFrom_RejectUnsupported(urls, i, acc) ==
    IF i > Len(urls) THEN [urls |-> acc, err |-> "nil"]
    ELSE IF ParseURL(urls[i]).err THEN [urls |-> <<>>, err |-> "failed to parse CRL URL"]
    ELSE IF ParseURL(urls[i]).Scheme \notin {"http", "https"}
    THEN [urls |-> <<>>, err |-> "unsupported scheme"]
    ELSE prepareUrlsFrom_RejectUnsupported(urls, i + 1, Append(acc, urls[i]))

prepareUrls_RejectUnsupported(urls) == prepareUrlsFrom_RejectUnsupported(urls, 1, <<>>)

RECURSIVE prepareUrlsFrom(_, _, _)
prepareUrlsFrom(urls, i, acc) ==
    IF i > Len(urls) THEN [urls |-> acc, err |-> "nil"]
    ELSE IF ParseURL(urls[i]).err THEN [urls |-> <<>>, err |-> "failed to parse CRL URL"]
    ELSE IF ParseURL(urls[i]).Scheme \notin {"http", "https"}
    THEN prepareUrlsFrom(urls, i + 1, acc)
    ELSE prepareUrlsFrom(urls, i + 1, Append(acc, urls[i]))

prepareUrls(urls) == prepareUrlsFrom(urls, 1, <<>>)

Event(op, url, res, fact) == [op |-> op, url |-> url, res |-> res, fact |-> fact]

\* issuerIteration that goes on to the next URL when a download fails
issuerIteration_SkipFailed(d, url, resp, certs) ==
    LET r == downloadCRLSigner(d, resp)
        get == IF r.requested THEN <<Event("GET.issuer", url, r.res, TRUE)>> ELSE <<>>
    IN  IF r.err # "nil"
        THEN [events |-> get, err |-> Nil, issuers |-> certs]
        ELSE [events |-> get, err |-> Nil, issuers |-> Append(certs, r.cert)]

\* what one iteration of the loop of getIssuerCertificates does with a response:
\* the events it adds, the error it returns (Nil: the loop goes on) and the
\* issuers it leaves
issuerIteration(d, url, resp, certs) ==
    LET r == downloadCRLSigner(d, resp)
        get == IF r.requested THEN <<Event("GET.issuer", url, r.res, TRUE)>> ELSE <<>>
    IN  IF r.err # "nil"
        THEN [events |-> get, err |-> Err("failed to download issuer certificate", r.err),
              issuers |-> certs]
        ELSE [events |-> get, err |-> Nil, issuers |-> Append(certs, r.cert)]

\* what one iteration of the loop over the CRL URLs does with a response: the
\* events it adds and the error it returns (Nil: the loop goes on).  A nil list
\* with a nil error reaches crl.Verify, a call on a nil interface value.
\* crlIteration that consults a list whatever Verify answered
crlIteration_TrustUnverified(d, url, resp, now, certs, ek) ==
    LET r == downloadCRL(d, resp, now)
        listed == r.parsed # NoCRL /\ ek.SerialNumber \in Range(r.parsed.RevokedCertificateEntries)
        get == IF r.requested THEN <<Event("GET.crl", url, r.res, listed)>> ELSE <<>>
        valid == IF r.parsed # NoCRL
                 THEN <<Event("IsValid", url, IsValid(r.parsed, now),
                              r.parsed.ThisUpdate <= now /\ now <= r.parsed.NextUpdate)>>
                 ELSE <<>>
    IN  IF r.err # "nil"
        THEN [events |-> get \o valid, err |-> Err("failed to download CRL", r.err)]
        ELSE IF r.crl = NoCRL
        THEN [events |-> get \o valid, err |-> Err("panic", "nil pointer dereference")]
        ELSE LET signed == \E i \in 1..Len(certs) : certs[i].PublicKey = r.crl.SignedBy
                 ver == <<Event("Verify", url, Verify(r.crl, certs), signed)>>
                 rev == <<Event("IsRevoked", url,
                                IF IsRevoked(r.crl, ek) THEN "true" ELSE "false", listed)>>
             IN  IF IsRevoked(r.crl, ek)
                 THEN [events |-> get \o valid \o ver \o rev,
                       err |-> Err(ErrCertificateRevoked, "")]
                 ELSE [events |-> get \o valid \o ver \o rev, err |-> Nil]

\* crlIteration that goes on to the next distribution point when the request
\* for a list fails
crlIteration_SkipUnreachable(d, url, resp, now, certs, ek) ==
    LET r == downloadCRL(d, resp, now)
        listed == r.parsed # NoCRL /\ ek.SerialNumber \in Range(r.parsed.RevokedCertificateEntries)
        get == IF r.requested THEN <<Event("GET.crl", url, r.res, listed)>> ELSE <<>>
        valid == IF r.parsed # NoCRL
                 THEN <<Event("IsValid", url, IsValid(r.parsed, now),
                              r.parsed.ThisUpdate <= now /\ now <= r.parsed.NextUpdate)>>
                 ELSE <<>>
    IN  IF r.err # "nil"
        THEN [events |-> get \o valid,
              err |-> IF r.res = "transport" THEN Nil ELSE Err("failed to download CRL", r.err)]
        ELSE IF r.crl = NoCRL
        THEN [events |-> get \o valid, err |-> Err("panic", "nil pointer dereference")]
        ELSE LET signed == \E i \in 1..Len(certs) : certs[i].PublicKey = r.crl.SignedBy
                 ver == <<Event("Verify", url, Verify(r.crl, certs), signed)>>
                 rev == <<Event("IsRevoked", url,
                                IF IsRevoked(r.crl, ek) THEN "true" ELSE "false", listed)>>
             IN  IF Verify(r.crl, certs) # "nil"
                 THEN [events |-> get \o valid \o ver,
                       err |-> Err("failed to verify CRL", Verify(r.crl, certs))]
                 ELSE IF IsRevoked(r.crl, ek)
                 THEN [events |-> get \o valid \o ver \o rev,
                       err |-> Err(ErrCertificateRevoked, "")]
                 ELSE [events |-> get \o valid \o ver \o rev, err |-> Nil]

crlIteration(d, url, resp, now, certs, ek) ==
    LET r == downloadCRL(d, resp, now)
        listed == r.parsed # NoCRL /\ ek.SerialNumber \in Range(r.parsed.RevokedCertificateEntries)
        get == IF r.requested THEN <<Event("GET.crl", url, r.res, listed)>> ELSE <<>>
        valid == IF r.parsed # NoCRL
                 THEN <<Event("IsValid", url, IsValid(r.parsed, now),
                              r.parsed.ThisUpdate <= now /\ now <= r.parsed.NextUpdate)>>
                 ELSE <<>>
    IN  IF r.err # "nil"
        THEN [events |-> get \o valid, err |-> Err("failed to download CRL", r.err)]
        ELSE IF r.crl = NoCRL
        THEN [events |-> get \o valid, err |-> Err("panic", "nil pointer dereference")]
        ELSE LET signed == \E i \in 1..Len(certs) : certs[i].PublicKey = r.crl.SignedBy
                 ver == <<Event("Verify", url, Verify(r.crl, certs), signed)>>
                 rev == <<Event("IsRevoked", url,
                                IF IsRevoked(r.crl, ek) THEN "true" ELSE "false", listed)>>
             IN  IF Verify(r.crl, certs) # "nil"
                 THEN [events |-> get \o valid \o ver,
                       err |-> Err("failed to verify CRL", Verify(r.crl, certs))]
                 ELSE IF IsRevoked(r.crl, ek)
                 THEN [events |-> get \o valid \o ver \o rev,
                       err |-> Err(ErrCertificateRevoked, "")]
                 ELSE [events |-> get \o valid \o ver \o rev, err |-> Nil]

\* verifyResult that drops the answer of the bundle
verifyResult_Swallow(verdict) == Nil

\* the error Check returns when VerifyCertificate answered verdict
verifyResult(verdict) ==
    IF verdict # "nil" THEN Err(ErrUntrustedCertificate, verdict) ELSE Nil

\* ------------------------------------------------------------------------
\* State
\* ------------------------------------------------------------------------
VARIABLES
    callerCfg,    \* the CheckConfig value of the caller
    downloader,   \* the downloader of the checker: enabled, maxDownloads
    cfg,          \* Check's own copy of the CheckConfig
    pc,           \* where the run of Check is
    issuerUrls,   \* getIssuerCertificates: the prepared issuer URLs
    issuers,      \* the issuer certificates fetched so far
    crlUrls,      \* Check: the prepared CRL URLs
    idx,          \* the index of the loop the run is in
    result,       \* the error Check returned, Nil for nil
    trace,        \* history: the HTTP requests and the calls on lists and bundle
    unit,         \* one call of a function of crl or of the downloader: its
                  \* arguments and, once it returned, its results
    availableCerts, \* search: the EK certificates enumerated from the TPM
    templates,    \* search: the templates of the persisted handles
    at,           \* where the run of search is
    ek,           \* search: the local ek
    errGet,       \* search: the local errGet
    found,        \* what search returned: the EK and the error
    tpmCalls,     \* history: the calls search made, on the TPM and on getEK
    info,         \* GetEKCertificate: what tpm.Info returned
    got,          \* what GetEKCertificate returned: the response and the error
    platform,     \* the build of the command: linux or windows
    proc,         \* the process the audit pipeline runs in: parent or child
    stage,        \* where audit.run is in that process
    exit,         \* per process: none, running, waiting or exited, and the exit code
    auditLog      \* history: the calls audit.run made, per process

checkVars == <<callerCfg, downloader, cfg, pc, issuerUrls, issuers, crlUrls, idx, result, trace>>

tpmVars == <<availableCerts, templates, at, ek, errGet, found, tpmCalls>>

sessionVars == <<info, got>>

auditVars == <<platform, proc, stage, exit, auditLog>>

vars == <<checkVars, unit, tpmVars, sessionVars, auditVars>>

\* what the steps of Check, of a single call and of search leave alone
outsideCheck == <<unit, tpmVars, sessionVars, auditVars>>
outsideUnit == <<checkVars, tpmVars, sessionVars, auditVars>>
outsideSearch == <<unit, checkVars, sessionVars, auditVars>>

\* a process that has not exited, and one that exited with code
Alive(st) == [state |-> st, code |-> 0]
Ended(code) == [state |-> "exited", code |-> code]

\* the audit command is not running
NoAudit ==
    /\ platform = "linux"
    /\ proc = "parent"
    /\ stage = "off"
    /\ exit = [parent |-> Alive("none"), child |-> Alive("none")]
    /\ auditLog = <<>>

\* GetEKCertificate is not running
NoSession ==
    /\ info = [nil |-> TRUE]
    /\ got = [nil |-> TRUE]

\* no call of a function under test is in progress
NoCall == [fn |-> "none"]

\* no run of search is in progress
NoSearch ==
    /\ availableCerts = <<>>
    /\ templates = <<>>
    /\ at = "off"
    /\ ek = NoCert
    /\ errGet = "nil"
    /\ found = [nil |-> TRUE]
    /\ tpmCalls = <<>>

Init ==
    /\ callerCfg \in [EK : EKCerts \cup {NoCert}, SkipRevocationCheck : BOOLEAN]
    /\ downloader \in [enabled : BOOLEAN, maxDownloads : {MaxUrls - 1, MaxUrls}]
    /\ cfg = callerCfg
    /\ pc = "start"
    /\ issuerUrls = <<>>
    /\ issuers = <<>>
    /\ crlUrls = <<>>
    /\ idx = 0
    /\ result = Nil
    /\ trace = <<>>
    /\ unit = NoCall
    /\ NoSearch
    /\ NoSession
    /\ NoAudit

Return(err) ==
    /\ pc' = "done"
    /\ result' = err

\* Check that works on the configuration of its caller, not on a copy
CheckBegin_ByReference ==
    /\ pc = "start"
    /\ UNCHANGED outsideCheck
    /\ UNCHANGED <<downloader, issuers, crlUrls, trace>>
    /\ IF CheckAndSetDefaults(cfg) # "nil"
       THEN /\ Return(Err("invalid check config", CheckAndSetDefaults(cfg)))
            /\ UNCHANGED <<callerCfg, cfg, issuerUrls, idx>>
       ELSE LET r == check(cfg, downloader)
                p == prepareUrls(cfg.EK.IssuingCertificateURL)
            IN  /\ cfg' = r.cfg
                /\ callerCfg' = r.cfg
                /\ IF r.err # Nil
                   THEN Return(r.err) /\ UNCHANGED <<issuerUrls, idx>>
                   ELSE IF p.err # "nil"
                   THEN /\ Return(Err("failed to prepare issuer URLs", p.err))
                        /\ UNCHANGED <<issuerUrls, idx>>
                   ELSE /\ issuerUrls' = p.urls
                        /\ idx' = 1
                        /\ pc' = IF Len(p.urls) = 0 THEN "revocation" ELSE "issuers"
                        /\ UNCHANGED result

\* Check that does not validate its configuration: check reads cfg.EK.IsCA of
\* a certificate that is nil
CheckBegin_NoValidation ==
    /\ pc = "start"
    /\ UNCHANGED outsideCheck
    /\ UNCHANGED <<callerCfg, downloader, issuers, crlUrls, trace>>
    /\ IF CheckAndSetDefaults(cfg) # "nil"
       THEN /\ Return(Err("panic", "nil pointer dereference"))
            /\ UNCHANGED <<cfg, issuerUrls, idx>>
       ELSE LET r == check(cfg, downloader)
                p == prepareUrls(cfg.EK.IssuingCertificateURL)
            IN  /\ cfg' = r.cfg
                /\ IF r.err # Nil
                   THEN Return(r.err) /\ UNCHANGED <<issuerUrls, idx>>
                   ELSE IF p.err # "nil"
                   THEN /\ Return(Err("failed to prepare issuer URLs", p.err))
                        /\ UNCHANGED <<issuerUrls, idx>>
                   ELSE /\ issuerUrls' = p.urls
                        /\ idx' = 1
                        /\ pc' = IF Len(p.urls) = 0 THEN "revocation" ELSE "issuers"
                        /\ UNCHANGED result

\* Check, lines 99-104, and the start of getIssuerCertificates, lines 211-216
CheckBegin ==
    /\ pc = "start"
    /\ UNCHANGED outsideCheck
    /\ UNCHANGED <<callerCfg, downloader, issuers, crlUrls, trace>>
    /\ IF CheckAndSetDefaults(cfg) # "nil"
       THEN /\ Return(Err("invalid check config", CheckAndSetDefaults(cfg)))
            /\ UNCHANGED <<cfg, issuerUrls, idx>>
       ELSE LET r == check(cfg, downloader)
                p == prepareUrls(cfg.EK.IssuingCertificateURL)
            IN  /\ cfg' = r.cfg
                /\ IF r.err # Nil
                   THEN Return(r.err) /\ UNCHANGED <<issuerUrls, idx>>
                   ELSE IF p.err # "nil"
                   THEN /\ Return(Err("failed to prepare issuer URLs", p.err))
                        /\ UNCHANGED <<issuerUrls, idx>>
                   ELSE /\ issuerUrls' = p.urls
                        /\ idx' = 1
                        /\ pc' = IF Len(p.urls) = 0 THEN "revocation" ELSE "issuers"
                        /\ UNCHANGED result

\* getIssuerCertificates: one iteration of the loop, lines 217-226
FetchIssuer ==
    /\ pc = "issuers"
    /\ UNCHANGED outsideCheck
    /\ \E resp \in Responses(CertBodies) :
         LET it == issuerIteration(downloader, issuerUrls[idx], resp, issuers)
         IN  /\ trace' = trace \o it.events
             /\ issuers' = it.issuers
             /\ IF it.err # Nil
                THEN Return(it.err) /\ UNCHANGED idx
                ELSE /\ idx' = idx + 1
                     /\ pc' = IF idx = Len(issuerUrls) THEN "revocation" ELSE "issuers"
                     /\ UNCHANGED result
    /\ UNCHANGED <<callerCfg, downloader, cfg, issuerUrls, crlUrls>>

\* Check, lines 111-115
BeginRevocation ==
    /\ pc = "revocation"
    /\ UNCHANGED outsideCheck
    /\ UNCHANGED <<callerCfg, downloader, cfg, issuerUrls, issuers, trace>>
    /\ IF cfg.SkipRevocationCheck
       THEN pc' = "anchor" /\ UNCHANGED <<crlUrls, idx, result>>
       ELSE LET p == prepareUrls(cfg.EK.CRLDistributionPoints)
            IN  IF p.err # "nil"
                THEN /\ Return(Err("failed to prepare CRL URLs", p.err))
                     /\ UNCHANGED <<crlUrls, idx>>
                ELSE /\ crlUrls' = p.urls
                     /\ idx' = 1
                     /\ pc' = IF Len(p.urls) = 0 THEN "anchor" ELSE "crls"
                     /\ UNCHANGED result

\* Check: one iteration of the loop over the CRL URLs, lines 117-133
CheckCRL ==
    /\ pc = "crls"
    /\ UNCHANGED outsideCheck
    /\ \E resp \in Responses(CRLBodies), now \in Clock :
         LET it == crlIteration(downloader, crlUrls[idx], resp, now, issuers, cfg.EK)
         IN  /\ trace' = trace \o it.events
             /\ IF it.err # Nil
                THEN Return(it.err) /\ UNCHANGED idx
                ELSE /\ idx' = idx + 1
                     /\ pc' = IF idx = Len(crlUrls) THEN "anchor" ELSE "crls"
                     /\ UNCHANGED result
    /\ UNCHANGED <<callerCfg, downloader, cfg, issuerUrls, issuers, crlUrls>>

\* Check that asks the bundle a second time when the first answer is an error
VerifyAnchor_AskAgain ==
    /\ pc = "anchor"
    /\ UNCHANGED outsideCheck
    /\ \E verdict \in AnchorVerdicts :
         /\ trace' = Append(trace, Event("VerifyCertificate", "", verdict, TRUE))
         /\ IF verdict # "nil" /\ SelectSeq(trace, LAMBDA e : e.op = "VerifyCertificate") = <<>>
            THEN UNCHANGED <<pc, result>>
            ELSE Return(verifyResult(verdict))
    /\ UNCHANGED <<callerCfg, downloader, cfg, issuerUrls, issuers, crlUrls, idx>>

\* Check, lines 138-150
VerifyAnchor ==
    /\ pc = "anchor"
    /\ UNCHANGED outsideCheck
    /\ \E verdict \in AnchorVerdicts :
         /\ trace' = Append(trace, Event("VerifyCertificate", "", verdict, TRUE))
         /\ Return(verifyResult(verdict))
    /\ UNCHANGED <<callerCfg, downloader, cfg, issuerUrls, issuers, crlUrls, idx>>

Next ==
    \/ CheckBegin
    \/ FetchIssuer
    \/ BeginRevocation
    \/ CheckCRL
    \/ VerifyAnchor

Spec == Init /\ [][Next]_vars

\* ------------------------------------------------------------------------
\* Vocabulary of the properties
\* ------------------------------------------------------------------------
EK == callerCfg.EK
HasEK == callerCfg.EK # NoCert
Done == pc = "done"

Supported(u) == ~ParseURL(u).err /\ ParseURL(u).Scheme \in {"http", "https"}
Unparsable(urls) == \E i \in 1..Len(urls) : ParseURL(urls[i]).err
KeepSupported(urls) == SelectSeq(urls, Supported)

IsRequest(e) == e.op \in {"GET.issuer", "GET.crl"}
IsIssuerGet(e) == e.op = "GET.issuer"
IsCrlGet(e) == e.op = "GET.crl"
IsAnchorCall(e) == e.op = "VerifyCertificate"
Passed(e) == e.res \in {"ok", "nil", "false"}

Requests == SelectSeq(trace, IsRequest)
IssuerGets == SelectSeq(trace, IsIssuerGet)
CrlGets == SelectSeq(trace, IsCrlGet)
AnchorCalls == SelectSeq(trace, IsAnchorCall)
UrlsOf(events) == [i \in 1..Len(events) |-> events[i].url]
IsPrefix(s, t) == Len(s) <= Len(t) /\ \A i \in 1..Len(s) : s[i] = t[i]

\* the rejecting pre-checks, read off the certificate and the caller's flag
OverIssuerCeiling == Len(EK.IssuingCertificateURL) > downloader.maxDownloads
OverCrlCeiling ==
    ~callerCfg.SkipRevocationCheck /\ Len(EK.CRLDistributionPoints) > downloader.maxDownloads
HasEKOID == EKCertificate \in Range(EK.UnknownExtKeyUsage)
PassesPreChecks ==
    /\ ~EK.IsCA
    /\ Len(EK.IssuingCertificateURL) > 0
    /\ ~OverIssuerCeiling
    /\ ~OverCrlCeiling
    /\ HasEKOID

CeilingKinds ==
    {"number of Issuers bigger than the maximum", "number of CRLs bigger than the maximum"}

\* ------------------------------------------------------------------------
\* Properties
\* ------------------------------------------------------------------------

\* C1: a run on a certificate flagged as CA issues no HTTP request (issuer or
\* CRL) and calls neither a list nor the bundle at any point, and it ends with
\* ErrEKCannotBeCA, whatever the other fields and SkipRevocationCheck are.
C1_CAIsRejectedWithoutNetwork ==
    (HasEK /\ EK.IsCA) =>
        /\ trace = <<>>
        /\ pc \in {"start", "done"}
        /\ Done => result = Err(ErrEKCannotBeCA, "")

C1_Witness ==
    /\ Done /\ HasEK /\ EK.IsCA
    /\ result = Err(ErrEKCannotBeCA, "")
    /\ downloader.enabled /\ ~callerCfg.SkipRevocationCheck
    /\ KeepSupported(EK.IssuingCertificateURL) # <<>>
    /\ KeepSupported(EK.CRLDistributionPoints) # <<>>

\* C2: Check returns nil only if the pre-checks passed, every accepted issuer URL
\* was fetched with success, every accepted CRL URL (unless revocation is
\* skipped) was fetched, validated, verified and found not to list the serial, and
\* VerifyCertificate, the last call, answered nil.  A VerifyCertificate that
\* answers an error makes Check return ErrUntrustedCertificate wrapping that
\* diagnostic, and no step that failed is followed by a nil result.
C2_NilOnlyIfEveryStepPassed ==
    /\ (Done /\ result = Nil) =>
          /\ HasEK
          /\ PassesPreChecks
          /\ \A i \in 1..Len(trace) : Passed(trace[i])
          /\ UrlsOf(IssuerGets) = KeepSupported(EK.IssuingCertificateURL)
          /\ ~cfg.SkipRevocationCheck =>
                /\ UrlsOf(CrlGets) = KeepSupported(EK.CRLDistributionPoints)
                /\ \A op \in {"IsValid", "Verify", "IsRevoked"} :
                      Len(SelectSeq(trace, LAMBDA e : e.op = op)) = Len(CrlGets)
          /\ Len(trace) > 0
          /\ trace[Len(trace)] = Event("VerifyCertificate", "", "nil", TRUE)
    /\ \A i \in 1..Len(trace) :
          /\ (IsAnchorCall(trace[i]) /\ trace[i].res # "nil") =>
                Done /\ result = Err(ErrUntrustedCertificate, trace[i].res)
          /\ ~Passed(trace[i]) => Done /\ result # Nil /\ i = Len(trace)

C2_Witness ==
    /\ Done /\ result = Nil
    /\ ~cfg.SkipRevocationCheck
    /\ Len(IssuerGets) = MaxUrls
    /\ Len(CrlGets) >= 1

\* the list of the i-th event, a CRL request, was handed to Check by downloadCRL
\* (it lies in its time window)
Returned(i) ==
    /\ i + 1 <= Len(trace)
    /\ trace[i + 1].op = "IsValid" /\ trace[i + 1].res = "nil"

\* ... and its signature verified against the fetched issuers
Accepted(i) ==
    /\ Returned(i)
    /\ i + 2 <= Len(trace)
    /\ trace[i + 2].op = "Verify" /\ trace[i + 2].res = "nil"

\* C3, as stated: when a revocation list that was fetched lists the serial of the
\* certificate, Check fails with ErrCertificateRevoked, no later URL is fetched
\* and VerifyCertificate is never invoked.
C3_AsStated ==
    \A i \in 1..Len(trace) :
        (IsCrlGet(trace[i]) /\ trace[i].fact /\ Returned(i)) =>
            /\ Done /\ result = Err(ErrCertificateRevoked, "")
            /\ \A j \in (i + 1)..Len(trace) : ~IsRequest(trace[j])
            /\ AnchorCalls = <<>>

\* C3, amended: when a revocation list that was fetched lists the serial of the
\* certificate, Check fails whatever the bundle would answer: with
\* ErrCertificateRevoked when the list passed the time-window validation and its
\* signature verified against the fetched issuers, with the error of that
\* validation or verification otherwise.  That list is the last one fetched and
\* VerifyCertificate is never invoked.
C3_ListedSerialFailsTheRun ==
    \A i \in 1..Len(trace) :
        (IsCrlGet(trace[i]) /\ trace[i].fact) =>
            /\ ~callerCfg.SkipRevocationCheck
            /\ Done /\ result # Nil
            /\ \A j \in (i + 1)..Len(trace) : ~IsRequest(trace[j])
            /\ AnchorCalls = <<>>
            /\ Accepted(i) <=> result = Err(ErrCertificateRevoked, "")
            /\ Accepted(i) => trace[Len(trace)] = Event("IsRevoked", trace[i].url, "true", TRUE)
            /\ ~Returned(i) =>
                  result \in {Err("failed to download CRL", ErrCrlIsExpired),
                              Err("failed to download CRL", ErrCrlNotYetValid)}
            /\ (Returned(i) /\ ~Accepted(i)) =>
                  result = Err("failed to verify CRL", ErrUnknownAuthorityError)

\* the second list of the run lists the serial, behind another entry
C3_Witness ==
    /\ Done /\ result = Err(ErrCertificateRevoked, "")
    /\ Len(CrlGets) = 2
    /\ ~CrlGets[1].fact /\ CrlGets[2].fact
    /\ trace[Len(trace)] = Event("IsRevoked", CrlGets[2].url, "true", TRUE)

\* C4: in a run of Check the HTTP requests, issuer certificates and revocation
\* lists together, are never more than downloader.maxDownloads, and a bound that
\* is exceeded is found before the first request.
C4_TotalFetchesWithinCeiling ==
    /\ Len(Requests) <= downloader.maxDownloads
    /\ (HasEK /\ (OverIssuerCeiling \/ OverCrlCeiling)) => Requests = <<>>

\* C5: the pre-checks are evaluated in the order CA flag, no issuer URL, issuer
\* ceiling, CRL ceiling (revocation enabled), EK OID, and the error returned is
\* the one of the first that fails; a certificate without distribution points is
\* not rejected for it, its run goes on with revocation skipped.
C5_FirstFailingPreCheckWins ==
    (Done /\ HasEK) =>
        /\ result.kind = ErrEKCannotBeCA <=> EK.IsCA
        /\ result.kind = "EK certificate does not contain AIA extension"
              <=> (~EK.IsCA /\ Len(EK.IssuingCertificateURL) = 0)
        /\ result.kind = "number of Issuers bigger than the maximum"
              <=> (~EK.IsCA /\ OverIssuerCeiling)
        /\ result.kind = "number of CRLs bigger than the maximum"
              <=> (~EK.IsCA /\ Len(EK.IssuingCertificateURL) > 0 /\ ~OverIssuerCeiling
                   /\ OverCrlCeiling)
        /\ result.kind = "EK certificate does not contain the required EK OID"
              <=> (~EK.IsCA /\ Len(EK.IssuingCertificateURL) > 0 /\ ~OverIssuerCeiling
                   /\ ~OverCrlCeiling /\ ~HasEKOID)
        /\ (PassesPreChecks /\ Len(EK.CRLDistributionPoints) = 0) =>
              cfg.SkipRevocationCheck /\ CrlGets = <<>>

\* a CA certificate without issuer URL and without the EK OID
C5_Witness ==
    /\ Done /\ HasEK
    /\ EK.IsCA /\ Len(EK.IssuingCertificateURL) = 0 /\ ~HasEKOID
    /\ result = Err(ErrEKCannotBeCA, "")

\* C6, as stated: a certificate with more issuer URLs than the ceiling, or with
\* more distribution points than the ceiling while revocation is enabled, makes
\* Check fail with a ceiling error and without any request.
C6_AsStated ==
    (HasEK /\ (OverIssuerCeiling \/ OverCrlCeiling)) =>
        /\ Requests = <<>>
        /\ Done => result.kind \in CeilingKinds

\* C6, amended: such a certificate makes Check fail without any request, and the
\* error is a ceiling error when the checks looked at first pass, that is when
\* the certificate is not flagged as CA and has an issuer URL; with
\* SkipRevocationCheck set, the number of distribution points is never the
\* reason of a rejection.
C6_CeilingRejectsWithoutNetwork ==
    /\ (HasEK /\ (OverIssuerCeiling \/ OverCrlCeiling)) =>
          /\ Requests = <<>>
          /\ trace = <<>>
          /\ Done => result # Nil
          /\ (Done /\ ~EK.IsCA /\ Len(EK.IssuingCertificateURL) > 0) =>
                /\ result.kind \in CeilingKinds
                /\ result.max = downloader.maxDownloads
    /\ (Done /\ callerCfg.SkipRevocationCheck) =>
          result.kind # "number of CRLs bigger than the maximum"

\* a certificate passes with more distribution points than the ceiling when the
\* caller skips revocation, and another is rejected for them
C6_Witness ==
    /\ Done /\ HasEK /\ ~EK.IsCA
    /\ Len(EK.IssuingCertificateURL) \in 1..downloader.maxDownloads
    /\ Len(EK.CRLDistributionPoints) > downloader.maxDownloads
    /\ \/ callerCfg.SkipRevocationCheck /\ result = Nil
       \/ ~callerCfg.SkipRevocationCheck
          /\ result.kind = "number of CRLs bigger than the maximum"

\* the issuer retrieval succeeded: every URL parses and each URL of a supported
\* scheme was requested, in order, with success
IssuersRetrieved ==
    /\ ~Unparsable(EK.IssuingCertificateURL)
    /\ UrlsOf(IssuerGets) = KeepSupported(EK.IssuingCertificateURL)
    /\ \A i \in 1..Len(IssuerGets) : IssuerGets[i].res = "ok"

\* C7: a certificate without distribution point that passes the rejecting
\* pre-checks, whose issuers are all retrieved and that the bundle accepts, is
\* trusted also when SkipRevocationCheck was false: the run goes on with
\* revocation skipped, fetches no list and consults none.
C7_NoDistributionPointSkipsRevocation ==
    (HasEK /\ Len(EK.CRLDistributionPoints) = 0) =>
        /\ \A i \in 1..Len(trace) : trace[i].op \in {"GET.issuer", "VerifyCertificate"}
        /\ pc \notin {"crls"}
        /\ (Done /\ PassesPreChecks /\ IssuersRetrieved) =>
              /\ cfg.SkipRevocationCheck
              /\ Len(AnchorCalls) = 1
              /\ AnchorCalls[1].res = "nil" => result = Nil

C7_Witness ==
    /\ Done /\ HasEK /\ result = Nil
    /\ ~callerCfg.SkipRevocationCheck
    /\ Len(EK.CRLDistributionPoints) = 0
    /\ Len(IssuerGets) >= 1

\* the error downloadCRLSigner returns for a request that ended as res
SignerFailure(res) ==
    CASE res = "transport" -> "failed retrieving certificate"
      [] res = "status"    -> "http request failed with status"
      [] res = "read"      -> "failed reading CRL response body"
      [] res = "parse"     -> "failed parsing certificate"
      [] OTHER             -> "nil"

\* C8: the issuer certificates are requested one per accepted URL, in the order
\* of the certificate; a request that fails (transport, status, body, parsing) is
\* the last event of the run, which returns an error wrapping that failure: no
\* later issuer, no revocation list and no call of VerifyCertificate.  The run
\* goes past the issuers only with all of them.
C8_IssuersAllOrNothing ==
    /\ HasEK => IsPrefix(UrlsOf(IssuerGets), KeepSupported(EK.IssuingCertificateURL))
    /\ \A i \in 1..Len(trace) :
          (IsIssuerGet(trace[i]) /\ trace[i].res # "ok") =>
              /\ i = Len(trace)
              /\ Done
              /\ result = Err("failed to download issuer certificate",
                              SignerFailure(trace[i].res))
    /\ (pc \in {"revocation", "crls", "anchor"} \/ CrlGets # <<>> \/ AnchorCalls # <<>>) =>
          /\ IssuersRetrieved
          /\ Len(issuers) = Len(IssuerGets)
    /\ (Done /\ result = Err("failed to download issuer certificate", ErrDownloaderDisabled)) =>
          trace = <<>>

\* the second issuer answers 404
C8_Witness ==
    /\ Done /\ HasEK
    /\ ~cfg.SkipRevocationCheck /\ KeepSupported(EK.CRLDistributionPoints) # <<>>
    /\ Len(trace) = 2
    /\ trace[1].op = "GET.issuer" /\ trace[1].res = "ok"
    /\ trace[2].op = "GET.issuer" /\ trace[2].res = "status"
    /\ result = Err("failed to download issuer certificate", "http request failed with status")

\* the i-th event, a CRL request, is followed by the validation, the verification
\* and the lookup of its list, which does not list the serial
FullyChecked(i) ==
    /\ trace[i].res = "ok"
    /\ Accepted(i)
    /\ i + 3 <= Len(trace)
    /\ trace[i + 3].op = "IsRevoked" /\ trace[i + 3].res = "false" /\ ~trace[i + 3].fact

\* C9: when Check returns nil for a certificate with at least one distribution
\* point and SkipRevocationCheck is false, at least one revocation list was
\* fetched, validated, verified and found not to list the serial.
C9_RevocationCheckedByDefault ==
    (Done /\ result = Nil /\ HasEK /\ ~callerCfg.SkipRevocationCheck
          /\ Len(EK.CRLDistributionPoints) >= 1) =>
        \E i \in 1..Len(trace) : IsCrlGet(trace[i]) /\ FullyChecked(i)

\* C10: prepareUrls drops the URLs whose scheme is neither http nor https and
\* keeps the others in their order: no dropped URL is ever requested, the
\* requests follow the kept URLs, a run that succeeds requested all of them, and
\* Check fails on the preparation of a list exactly when a URL of that list
\* cannot be parsed.
C10_UnsupportedSchemesAreDropped ==
    /\ \A i \in 1..Len(trace) : IsRequest(trace[i]) => Supported(trace[i].url)
    /\ HasEK =>
          /\ IsPrefix(UrlsOf(IssuerGets), KeepSupported(EK.IssuingCertificateURL))
          /\ IsPrefix(UrlsOf(CrlGets), KeepSupported(EK.CRLDistributionPoints))
    /\ pc \in {"issuers", "revocation", "crls", "anchor"} =>
          issuerUrls = KeepSupported(EK.IssuingCertificateURL)
    /\ pc = "crls" => crlUrls = KeepSupported(EK.CRLDistributionPoints)
    /\ (Done /\ result = Nil) =>
          /\ UrlsOf(IssuerGets) = KeepSupported(EK.IssuingCertificateURL)
          /\ ~cfg.SkipRevocationCheck =>
                UrlsOf(CrlGets) = KeepSupported(EK.CRLDistributionPoints)
    /\ (Done /\ HasEK /\ PassesPreChecks) =>
          /\ result.kind = "failed to prepare issuer URLs"
                <=> Unparsable(EK.IssuingCertificateURL)
          /\ result.kind = "failed to prepare CRL URLs"
                <=> /\ IssuersRetrieved
                    /\ ~cfg.SkipRevocationCheck
                    /\ Unparsable(EK.CRLDistributionPoints)

\* a trusted certificate with a dropped URL ahead of the kept one in both lists
C10_Witness ==
    /\ Done /\ HasEK /\ result = Nil
    /\ Len(EK.IssuingCertificateURL) = 2 /\ Len(EK.CRLDistributionPoints) = 2
    /\ ParseURL(EK.IssuingCertificateURL[1]).Scheme = "ldap"
    /\ ParseURL(EK.CRLDistributionPoints[1]).Scheme = "ldap"
    /\ Len(IssuerGets) = 1 /\ Len(CrlGets) = 1

\* ------------------------------------------------------------------------
\* The functions of the downloader, one call at a time
\* ------------------------------------------------------------------------
\* no run of Check is in progress
NoCheck ==
    /\ callerCfg = [EK |-> NoCert, SkipRevocationCheck |-> FALSE]
    /\ downloader = [enabled |-> FALSE, maxDownloads |-> MaxUrls]
    /\ cfg = callerCfg
    /\ pc = "off"
    /\ issuerUrls = <<>>
    /\ issuers = <<>>
    /\ crlUrls = <<>>
    /\ idx = 0
    /\ result = Nil
    /\ trace = <<>>

NotFound == 404

\* whatever client.Do and the reading of the body can give: here a response
\* of any status carries any body
AnyResponses ==
    [doErr : BOOLEAN, StatusCode : {StatusOK, NotFound}, readErr : BOOLEAN,
     body : CertBodies \cup CRLBodies \cup {Garbage}]

NoOut == [nil |-> TRUE]

InitDownload ==
    /\ unit \in [fn : {"pending"},
                 d : [enabled : BOOLEAN, maxDownloads : {MaxUrls}],
                 resp : AnyResponses,
                 now : Clock,
                 out : {NoOut}]
    /\ NoCheck
    /\ NoSearch
    /\ NoSession
    /\ NoAudit

CallDownloadCRL ==
    /\ unit.fn = "pending"
    /\ unit' = [unit EXCEPT !.fn = "downloadCRL",
                            !.out = downloadCRL(unit.d, unit.resp, unit.now)]
    /\ UNCHANGED outsideUnit

CallDownloadCRLSigner ==
    /\ unit.fn = "pending"
    /\ unit' = [unit EXCEPT !.fn = "downloadCRLSigner",
                            !.out = downloadCRLSigner(unit.d, unit.resp)]
    /\ UNCHANGED outsideUnit

NextDownload ==
    \/ CallDownloadCRL
    \/ CallDownloadCRLSigner

SpecDownload == InitDownload /\ [][NextDownload]_vars

ReturnedCRL == unit.fn = "downloadCRL"
ReturnedSigner == unit.fn = "downloadCRLSigner"
\* the call got as far as handing the body to the parser
BodyParsed == unit.out.res \in {"parse", "ok"}
\* the object the call returned, nil or not
Object == IF ReturnedCRL THEN unit.out.crl ELSE unit.out.cert
BodyFits ==
    unit.resp.body.type = (IF ReturnedCRL THEN "crl" ELSE "cert")

\* C11: with a disabled downloader downloadCRL returns no list and no error,
\* downloadCRLSigner returns no certificate and ErrDownloaderDisabled, and
\* neither calls the HTTP client
C11_DisabledDownloaderStaysOffline ==
    (ReturnedCRL \/ ReturnedSigner) /\ ~unit.d.enabled =>
        /\ ~unit.out.requested
        /\ ReturnedCRL => unit.out.crl = NoCRL /\ unit.out.err = "nil"
        /\ ReturnedSigner =>
              unit.out.cert = NoCert /\ unit.out.err = ErrDownloaderDisabled

C11_Witness ==
    /\ ReturnedCRL
    /\ ~unit.d.enabled
    /\ ~unit.resp.doErr /\ unit.resp.StatusCode = StatusOK /\ ~unit.resp.readErr
    /\ unit.resp.body.type = "crl"
    /\ unit.out.err = "nil"

InitCRL ==
    /\ unit \in [fn : {"pending"},
                 rl : RevocationLists \cup {NoCRL},
                 now : Times,
                 certs : SeqsUpTo(IssuerCerts, MaxUrls),
                 cert : [SerialNumber : Serials],
                 out : {NoOut}]
    /\ NoCheck
    /\ NoSearch
    /\ NoSession
    /\ NoAudit

CallNewCRL ==
    /\ unit.fn = "pending"
    /\ unit' = [unit EXCEPT !.fn = "NewCRL", !.out = NewCRL(unit.rl, unit.now)]
    /\ UNCHANGED outsideUnit

\* the methods have a list as their receiver
CallIsValid ==
    /\ unit.fn = "pending"
    /\ unit.rl # NoCRL
    /\ unit' = [unit EXCEPT !.fn = "IsValid", !.out = IsValid(unit.rl, unit.now)]
    /\ UNCHANGED outsideUnit

CallVerify ==
    /\ unit.fn = "pending"
    /\ unit.rl # NoCRL
    /\ unit' = [unit EXCEPT !.fn = "Verify", !.out = Verify(unit.rl, unit.certs)]
    /\ UNCHANGED outsideUnit

CallIsRevoked ==
    /\ unit.fn = "pending"
    /\ unit.rl # NoCRL
    /\ unit' = [unit EXCEPT !.fn = "IsRevoked", !.out = IsRevoked(unit.rl, unit.cert)]
    /\ UNCHANGED outsideUnit

NextCRL ==
    \/ CallNewCRL
    \/ CallIsValid
    \/ CallVerify
    \/ CallIsRevoked

SpecCRL == InitCRL /\ [][NextCRL]_vars

InWindow == unit.rl.ThisUpdate <= unit.now /\ unit.now <= unit.rl.NextUpdate
\* the error IsValid or NewCRL returned for a list that is not nil
WindowVerdict == IF unit.fn = "IsValid" THEN unit.out ELSE unit.out.err

\* C13 as stated: accepted exactly inside [ThisUpdate, NextUpdate], expired
\* after NextUpdate and not yet valid before ThisUpdate
C13_AsStated ==
    unit.fn \in {"IsValid", "NewCRL"} /\ unit.rl # NoCRL =>
        /\ WindowVerdict = "nil" <=> InWindow
        /\ unit.now > unit.rl.NextUpdate => WindowVerdict = ErrCrlIsExpired
        /\ unit.now < unit.rl.ThisUpdate => WindowVerdict = ErrCrlNotYetValid

\* C13: IsValid and NewCRL accept a list exactly when the current time is
\* inside [ThisUpdate, NextUpdate], whoever signed it; after NextUpdate the
\* list is expired, and before ThisUpdate it is not yet valid unless it is
\* also after NextUpdate; NewCRL returns no object for a nil list or a list
\* outside the window, and the list itself otherwise
C13_AcceptedExactlyInsideWindow ==
    /\ unit.fn \in {"IsValid", "NewCRL"} /\ unit.rl # NoCRL =>
          /\ WindowVerdict = "nil" <=> InWindow
          /\ unit.now > unit.rl.NextUpdate => WindowVerdict = ErrCrlIsExpired
          /\ unit.now < unit.rl.ThisUpdate /\ unit.now <= unit.rl.NextUpdate =>
                WindowVerdict = ErrCrlNotYetValid
    /\ unit.fn = "NewCRL" =>
          /\ unit.rl = NoCRL => unit.out.crl = NoCRL /\ unit.out.err = ErrCrlCannotBeNil
          /\ unit.rl # NoCRL /\ ~InWindow => unit.out.crl = NoCRL
          /\ unit.rl # NoCRL /\ InWindow => unit.out.crl = unit.rl

\* a list at the very instant of its NextUpdate
C13_Witness ==
    /\ unit.fn = "NewCRL"
    /\ unit.rl # NoCRL
    /\ unit.rl.ThisUpdate < unit.rl.NextUpdate
    /\ unit.now = unit.rl.NextUpdate
    /\ unit.out.crl = unit.rl

Candidates == {unit.certs[i].PublicKey : i \in 1..Len(unit.certs)}

\* C14: Verify returns nil exactly when one of the candidates, at whatever
\* position, holds the key that signed the list, and ErrUnknownAuthorityError
\* otherwise, so for no candidate at all
C14_VerifyNeedsOneSigner ==
    unit.fn = "Verify" =>
        /\ unit.out = "nil" <=> unit.rl.SignedBy \in Candidates
        /\ unit.out # "nil" => unit.out = ErrUnknownAuthorityError
        /\ unit.certs = <<>> => unit.out = ErrUnknownAuthorityError

\* the signer is the second of two candidates
C14_Witness ==
    /\ unit.fn = "Verify"
    /\ Len(unit.certs) = 2
    /\ unit.certs[1].PublicKey # unit.rl.SignedBy
    /\ unit.certs[2].PublicKey = unit.rl.SignedBy
    /\ unit.out = "nil"

\* C15: IsRevoked is true exactly when the serial number of the certificate
\* is the serial number of an entry of the list, and false for a list
\* without entries
C15_RevokedIffSerialListed ==
    unit.fn = "IsRevoked" =>
        /\ unit.out <=> unit.cert.SerialNumber \in Range(unit.rl.RevokedCertificateEntries)
        /\ unit.rl.RevokedCertificateEntries = <<>> => ~unit.out

\* the serial is the first of two entries, and not the last
C15_Witness ==
    /\ unit.fn = "IsRevoked"
    /\ Len(unit.rl.RevokedCertificateEntries) = 2
    /\ unit.rl.RevokedCertificateEntries[1] = unit.cert.SerialNumber
    /\ unit.rl.RevokedCertificateEntries[2] # unit.cert.SerialNumber
    /\ unit.out

\* ------------------------------------------------------------------------
\* Check: what a list went through before it is consulted
\* ------------------------------------------------------------------------
\* the list consulted at event k was fetched by the request just before, was
\* inside its window and was signed by one of the issuers
Vetted(k) ==
    /\ k >= 4
    /\ IsCrlGet(trace[k - 3]) /\ trace[k - 3].res = "ok"
    /\ trace[k - 2].op = "IsValid" /\ trace[k - 2].res = "nil" /\ trace[k - 2].fact
    /\ trace[k - 1].op = "Verify" /\ trace[k - 1].res = "nil" /\ trace[k - 1].fact
    /\ \A j \in (k - 3)..(k - 1) : trace[j].url = trace[k].url

\* an issuer certificate was fetched in this run before event k
IssuerFetchedBefore(k) ==
    \E j \in 1..(k - 1) : IsIssuerGet(trace[j]) /\ trace[j].res = "ok"

\* C16: Check consults a list with IsRevoked only when that list was fetched
\* by the request just before in this run, passed IsValid and passed Verify
\* against the issuer certificates fetched in this run; a list that fails
\* IsValid or Verify ends the run with an error, as its last event
C16_OnlyVettedListsAreConsulted ==
    /\ Len(issuers) = Len(SelectSeq(trace, LAMBDA e : IsIssuerGet(e) /\ e.res = "ok"))
    /\ \A k \in 1..Len(trace) :
          /\ trace[k].op = "IsRevoked" => Vetted(k) /\ IssuerFetchedBefore(k)
          /\ trace[k].op \in {"IsValid", "Verify"} /\ trace[k].res # "nil" =>
                /\ k = Len(trace)
                /\ Done
                /\ result.kind = (IF trace[k].op = "IsValid"
                                  THEN "failed to download CRL"
                                  ELSE "failed to verify CRL")
                /\ result.cause = trace[k].res

\* a run that consulted a list, and a later list that failed Verify
C16_Witness ==
    /\ Done
    /\ \E k \in 1..Len(trace) : trace[k].op = "IsRevoked" /\ trace[k].res = "false"
    /\ trace[Len(trace)].op = "Verify"
    /\ trace[Len(trace)].res = ErrUnknownAuthorityError
    /\ result.kind = "failed to verify CRL"

\* ------------------------------------------------------------------------
\* package tpm: search, the Key Locator
\* ------------------------------------------------------------------------
MaxTemplates == 2

TPMAlgECC == "ECC"
TPMAlgRSA == "RSA"
ErrEKCertNotFound == "EK certificate not found"

\* the templates of EK certificates: a key type and the storage index
EKCertTemplates == [Type : {TPMAlgECC, TPMAlgRSA}, Index : {"low", "high"}]
NoTemplate == [nil |-> TRUE]

\* the answers of tpm.EK: nil or an error
EKAnswers == {"nil", ErrEKCertNotFound, "TPM failure"}

\* endorsement.EK{}
ZeroEK == [Certificate |-> NoCert, Public |-> "nil"]

\* tpm.EK(attest.GetEKCertConfig{Template: template}), given the answer of the TPM
tpmEK(template, answer) ==
    [ek |-> IF answer = "nil"
            THEN [Certificate |-> template, Public |-> template.Type]
            ELSE ZeroEK,
     err |-> answer]

TpmCall(op, alg, template, err) ==
    [op |-> op, alg |-> alg, template |-> template, err |-> err]

\* the search of getEK that keeps the last template of the type
RECURSIVE FirstOfType_KeepLast(_, _, _)
FirstOfType_KeepLast(alg, certs, i) ==
    IF i > Len(certs) THEN 0
    ELSE IF FirstOfType_KeepLast(alg, certs, i + 1) # 0
    THEN FirstOfType_KeepLast(alg, certs, i + 1)
    ELSE IF certs[i].Type = alg THEN i
    ELSE 0

RECURSIVE FirstOfType(_, _, _)
FirstOfType(alg, certs, i) ==
    IF i > Len(certs) THEN 0
    ELSE IF certs[i].Type = alg THEN i
    ELSE FirstOfType(alg, certs, i + 1)

\* calls lists the call of getEK and the call of tpm.EK it made, if any
getEK(alg, certs, answer) ==
    LET i == FirstOfType(alg, certs, 1)
    IN  IF i = 0
        THEN [ek |-> ZeroEK, err |-> ErrEKCertNotFound,
              calls |-> <<TpmCall("getEK", alg, NoTemplate, ErrEKCertNotFound)>>]
        ELSE [ek |-> tpmEK(certs[i], answer).ek, err |-> answer,
              calls |-> <<TpmCall("getEK", alg, NoTemplate, answer),
                          TpmCall("EK", alg, certs[i], answer)>>]

\* search that goes on with an empty enumeration
searchEnumerated_GoOn(certs) == Nil

\* search, lines 76-80
searchEnumerated(certs) ==
    IF Len(certs) = 0 THEN Err("no EK certificates available in TPM", "") ELSE Nil

\* search that generates a key whatever handles are persisted
searchSwitch_Generate(handles) == "ecc"

\* search, the cases of the switch, lines 94-99
searchSwitch(handles) ==
    IF Len(handles) >= 1 THEN "persisted" ELSE "ecc"

\* search that falls back to RSA after any failure of ECC
afterECC_AnyFailure(e) ==
    IF e = "nil" THEN "select" ELSE "rsa"

\* search, lines 104-108 and 121: where the run goes after the ECC attempt
afterECC(e) ==
    IF e = "nil" THEN "select"
    ELSE IF e = ErrEKCertNotFound THEN "rsa"
    ELSE "fail"

\* search, lines 116-121: what is returned after the RSA attempt
afterRSA(e) ==
    IF e # "nil"
    THEN Err("failed to get any EK cert", e)
    ELSE Err("failed to get EK ECC cert", e)

InitSearch ==
    /\ availableCerts \in SeqsUpTo(EKCertTemplates, MaxTemplates)
    /\ templates \in SeqsUpTo(EKCertTemplates, MaxTemplates)
    /\ at = "start"
    /\ ek = ZeroEK
    /\ errGet = "nil"
    /\ found = NoOut
    /\ tpmCalls = <<>>
    /\ unit = NoCall
    /\ NoCheck
    /\ NoSession
    /\ NoAudit

SearchReturn(e, err) ==
    /\ at' = "done"
    /\ found' = [ek |-> e, err |-> err]

\* search, lines 76-80
SearchBegin ==
    /\ at = "start"
    /\ tpmCalls' = Append(tpmCalls,
                          TpmCall("SearchAvailableCertificates", "", NoTemplate, "nil"))
    /\ IF searchEnumerated(availableCerts) # Nil
       THEN SearchReturn(ZeroEK, searchEnumerated(availableCerts))
       ELSE at' = "handles" /\ UNCHANGED found
    /\ UNCHANGED <<availableCerts, templates, ek, errGet>>
    /\ UNCHANGED outsideSearch

\* search, lines 89-95
ListPersisted ==
    /\ at = "handles"
    /\ tpmCalls' = Append(tpmCalls, TpmCall("PersistedEKs", "", NoTemplate, "nil"))
    /\ at' = searchSwitch(templates)
    /\ UNCHANGED <<availableCerts, templates, ek, errGet, found>>
    /\ UNCHANGED outsideSearch

\* search, lines 95-97
UsePersisted ==
    /\ at = "persisted"
    /\ \E answer \in EKAnswers :
         LET r == tpmEK(templates[1], answer)
         IN  /\ ek' = r.ek
             /\ errGet' = r.err
             /\ tpmCalls' = Append(tpmCalls,
                                   TpmCall("EK", templates[1].Type, templates[1], answer))
    /\ at' = "select"
    /\ UNCHANGED <<availableCerts, templates, found>>
    /\ UNCHANGED outsideSearch

\* search, lines 98-108 and 121
TryECC ==
    /\ at = "ecc"
    /\ \E answer \in EKAnswers :
         LET r == getEK(TPMAlgECC, availableCerts, answer)
         IN  /\ ek' = r.ek
             /\ errGet' = r.err
             /\ tpmCalls' = tpmCalls \o r.calls
             /\ IF afterECC(r.err) = "fail"
                THEN SearchReturn(ZeroEK, Err("failed to get EK ECC cert", r.err))
                ELSE at' = afterECC(r.err) /\ UNCHANGED found
    /\ UNCHANGED <<availableCerts, templates>>
    /\ UNCHANGED outsideSearch

\* search, lines 108-121
TryRSA ==
    /\ at = "rsa"
    /\ \E answer \in EKAnswers :
         LET r == getEK(TPMAlgRSA, availableCerts, answer)
         IN  /\ ek' = r.ek
             /\ errGet' = r.err
             /\ tpmCalls' = tpmCalls \o r.calls
             /\ SearchReturn(ZeroEK, afterRSA(r.err))
    /\ UNCHANGED <<availableCerts, templates>>
    /\ UNCHANGED outsideSearch

\* search, lines 123-125: ek.Certificate.Issuer is read for the log
Select ==
    /\ at = "select"
    /\ IF ek.Certificate = NoCert
       THEN SearchReturn(ZeroEK, Err("panic", "nil pointer dereference"))
       ELSE SearchReturn(ek, Nil)
    /\ UNCHANGED <<availableCerts, templates, ek, errGet, tpmCalls>>
    /\ UNCHANGED outsideSearch

NextSearch ==
    \/ SearchBegin
    \/ ListPersisted
    \/ UsePersisted
    \/ TryECC
    \/ TryRSA
    \/ Select

SpecSearch == InitSearch /\ [][NextSearch]_vars

Searching == at \notin {"off", "start"}
SearchDone == at = "done"
Attempted(alg) ==
    \E k \in 1..Len(tpmCalls) : tpmCalls[k].op = "getEK" /\ tpmCalls[k].alg = alg
\* the error the attempt on alg ended with
AttemptErr(alg) ==
    tpmCalls[CHOOSE k \in 1..Len(tpmCalls) :
                tpmCalls[k].op = "getEK" /\ tpmCalls[k].alg = alg].err
OpsCalled == {tpmCalls[k].op : k \in 1..Len(tpmCalls)}

\* C17: with an empty enumeration of EK certificates search returns the
\* error of no certificate available; it calls neither PersistedEKs nor
\* getEK nor tpm.EK
C17_EmptyEnumerationFailsAtOnce ==
    Searching /\ Len(availableCerts) = 0 =>
        /\ SearchDone
        /\ found = [ek |-> ZeroEK, err |-> Err("no EK certificates available in TPM", "")]
        /\ OpsCalled = {"SearchAvailableCertificates"}

\* nothing enumerated, and a persisted handle that is never looked for
C17_Witness ==
    /\ SearchDone
    /\ Len(availableCerts) = 0
    /\ Len(templates) >= 1
    /\ found.err.kind = "no EK certificates available in TPM"

\* the certificate was asked for from the template of the first persisted
\* handle, and no key generation was attempted
FromFirstHandleOnly ==
    /\ Len(tpmCalls) = 3
    /\ tpmCalls[3].op = "EK" /\ tpmCalls[3].template = templates[1]
    /\ ~Attempted(TPMAlgECC) /\ ~Attempted(TPMAlgRSA)
    /\ SearchDone /\ found.err = Nil => found.ek.Certificate = templates[1]

\* C18 as stated: with a persisted handle the certificate comes from the
\* template of the first persisted handle, whatever was enumerated
C18_AsStated ==
    Len(templates) >= 1 /\ at \in {"select", "done"} => FromFirstHandleOnly

\* C18: when the enumeration is not empty and there is a persisted handle,
\* search asks tpm.EK for the template of the first persisted handle and
\* never enters the ECC or the RSA path, whatever templates were enumerated
C18_PersistedHandleWins ==
    /\ Len(templates) >= 1 => at \notin {"ecc", "rsa"}
    /\ Len(templates) >= 1 /\ Len(availableCerts) >= 1 /\ at \in {"select", "done"} =>
          FromFirstHandleOnly

\* the certificate of an RSA handle, with only ECC certificates enumerated
C18_Witness ==
    /\ SearchDone
    /\ Len(templates) = 2
    /\ templates[1].Type = TPMAlgRSA
    /\ \A i \in 1..Len(availableCerts) : availableCerts[i].Type = TPMAlgECC
    /\ Len(availableCerts) >= 1
    /\ found.err = Nil
    /\ found.ek.Certificate = templates[1]

\* C19: search attempts RSA only without persisted handle and after an ECC
\* attempt that ended with ErrEKCertNotFound; when the ECC attempt succeeds
\* its certificate is returned and RSA is not attempted; when it ends with
\* another error, search returns an error wrapping it and RSA is not attempted
C19_RSAOnlyAfterECCNotFound ==
    /\ Attempted(TPMAlgRSA) \/ at = "rsa" =>
          /\ Len(templates) = 0
          /\ Attempted(TPMAlgECC)
          /\ AttemptErr(TPMAlgECC) = ErrEKCertNotFound
    /\ Attempted(TPMAlgECC) /\ AttemptErr(TPMAlgECC) = "nil" =>
          /\ ~Attempted(TPMAlgRSA)
          /\ at \in {"select", "done"}
          /\ SearchDone =>
                /\ found.err = Nil
                /\ found.ek.Certificate = availableCerts[FirstOfType(TPMAlgECC, availableCerts, 1)]
    /\ Attempted(TPMAlgECC) /\ AttemptErr(TPMAlgECC) \notin {"nil", ErrEKCertNotFound} =>
          /\ ~Attempted(TPMAlgRSA)
          /\ SearchDone
          /\ found.err = Err("failed to get EK ECC cert", AttemptErr(TPMAlgECC))

\* an ECC certificate is enumerated after an RSA one, the TPM fails on it
\* and the RSA certificate is not tried
C19_Witness ==
    /\ SearchDone
    /\ Len(availableCerts) = 2
    /\ availableCerts[1].Type = TPMAlgRSA
    /\ availableCerts[2].Type = TPMAlgECC
    /\ found.err = Err("failed to get EK ECC cert", "TPM failure")
    /\ ~Attempted(TPMAlgRSA)

\* C20: without persisted handle, when the ECC attempt ends with
\* ErrEKCertNotFound and the RSA attempt succeeds, search returns the RSA
\* certificate and no error
C20_RSAFallbackSucceeds ==
    /\ SearchDone
    /\ Len(templates) = 0
    /\ Attempted(TPMAlgECC) /\ AttemptErr(TPMAlgECC) = ErrEKCertNotFound
    /\ Attempted(TPMAlgRSA) /\ AttemptErr(TPMAlgRSA) = "nil"
    => /\ found.err = Nil
       /\ found.ek.Certificate = availableCerts[FirstOfType(TPMAlgRSA, availableCerts, 1)]

\* ------------------------------------------------------------------------
\* package tpm: GetEKCertificate, the session around search
\* ------------------------------------------------------------------------
Manufacturers == {"IFX", "XYZ"}

\* the answers of attest.OpenTPM, tpm.Info and tpm.Close: nil or an error
SessionAnswers == {"nil", "TPM failure"}

outsideSession == <<unit, checkVars, auditVars>>

\* GetEKCertificate, lines 41-44: the deferred Close is registered after a
\* successful open only
afterOpen(e) ==
    IF e # "nil" THEN "returned" ELSE "info"

\* GetEKCertificate that returns without Close when tpm.Info fails
afterInfo_NoClose(e) ==
    IF e # "nil" THEN "returned" ELSE "start"

\* GetEKCertificate, lines 52-56: a return runs the deferred Close
afterInfo(e) ==
    IF e # "nil" THEN "closing" ELSE "start"

\* GetEKCertificate, lines 45-50: the deferred function assigns the failure of
\* Close to the local err; the results of GetEKCertificate are not named, so
\* the values of the return statement are what the caller gets
deferredClose(ret, closeErr) == ret

InitGetEK ==
    /\ availableCerts \in SeqsUpTo(EKCertTemplates, MaxTemplates)
    /\ templates \in SeqsUpTo(EKCertTemplates, MaxTemplates)
    /\ at = "open"
    /\ ek = ZeroEK
    /\ errGet = "nil"
    /\ found = NoOut
    /\ tpmCalls = <<>>
    /\ NoSession
    /\ NoAudit
    /\ unit = NoCall
    /\ NoCheck

\* GetEKCertificate, lines 40-44
OpenTPM ==
    /\ at = "open"
    /\ \E answer \in SessionAnswers :
         /\ tpmCalls' = Append(tpmCalls, TpmCall("OpenTPM", "", NoTemplate, answer))
         /\ at' = afterOpen(answer)
         /\ got' = IF answer # "nil"
                   THEN [resp |-> NoOut, err |-> Err("failed to open TPM", answer)]
                   ELSE got
    /\ UNCHANGED <<availableCerts, templates, ek, errGet, found, info>>
    /\ UNCHANGED outsideSession

\* GetEKCertificate, lines 52-57
ReadInfo ==
    /\ at = "info"
    /\ \E answer \in SessionAnswers, m \in Manufacturers :
         /\ tpmCalls' = Append(tpmCalls, TpmCall("Info", "", NoTemplate, answer))
         /\ at' = afterInfo(answer)
         /\ info' = IF answer = "nil" THEN [Manufacturer |-> m] ELSE info
         /\ got' = IF answer # "nil"
                   THEN [resp |-> NoOut, err |-> Err("failed to get TPM info", answer)]
                   ELSE got
    /\ UNCHANGED <<availableCerts, templates, ek, errGet, found>>
    /\ UNCHANGED outsideSession

\* GetEKCertificate, lines 59-63
SearchReturned ==
    /\ at = "done"
    /\ got' = IF found.err # Nil
              THEN [resp |-> NoOut, err |-> found.err]
              ELSE [resp |-> [Certificate |-> found.ek.Certificate,
                              Manufacturer |-> info.Manufacturer],
                    err |-> Nil]
    /\ at' = "closing"
    /\ UNCHANGED <<availableCerts, templates, ek, errGet, found, tpmCalls, info>>
    /\ UNCHANGED outsideSession

\* GetEKCertificate, lines 45-50: the deferred function
CloseTPM ==
    /\ at = "closing"
    /\ \E closeErr \in SessionAnswers :
         /\ tpmCalls' = Append(tpmCalls, TpmCall("Close", "", NoTemplate, closeErr))
         /\ got' = deferredClose(got, closeErr)
    /\ at' = "returned"
    /\ UNCHANGED <<availableCerts, templates, ek, errGet, found, info>>
    /\ UNCHANGED outsideSession

NextGetEK ==
    \/ OpenTPM
    \/ ReadInfo
    \/ SearchBegin
    \/ ListPersisted
    \/ UsePersisted
    \/ TryECC
    \/ TryRSA
    \/ Select
    \/ SearchReturned
    \/ CloseTPM

SpecGetEK == InitGetEK /\ [][NextGetEK]_vars

GetEKReturned == at = "returned"
Called(op) == \E k \in 1..Len(tpmCalls) : tpmCalls[k].op = op
Failed(op) == \E k \in 1..Len(tpmCalls) : tpmCalls[k].op = op /\ tpmCalls[k].err # "nil"
SessionOpened == Called("OpenTPM") /\ ~Failed("OpenTPM")
Closes == Len(SelectSeq(tpmCalls, LAMBDA c : c.op = "Close"))

\* C21: a session that GetEKCertificate opened is closed exactly once when
\* GetEKCertificate returns, whether tpm.Info failed, search failed or search
\* succeeded, and Close is the last call on the TPM; no Close is called when
\* the open failed or before the return
C21_SessionClosedExactlyOnce ==
    /\ Closes <= 1
    /\ GetEKReturned /\ SessionOpened =>
          Closes = 1 /\ tpmCalls[Len(tpmCalls)].op = "Close"
    /\ ~SessionOpened => Closes = 0
    /\ ~GetEKReturned => Closes = 0

\* tpm.Info failed and the session was closed
C21_Witness ==
    /\ GetEKReturned
    /\ Failed("Info")
    /\ Closes = 1
    /\ got.err.kind = "failed to get TPM info"

\* C22: when Close fails, GetEKCertificate returns an error that reports the
\* failure of Close, and never a plain success
C22_CloseFailureIsReported ==
    GetEKReturned /\ Failed("Close") =>
        /\ got.err # Nil
        /\ got.err.kind = "failed to close TPM"

\* search, lines 100 and 109-113: without persisted handle the key pair of the
\* certificate is generated in the TPM by the tpm.EK call of getEK
KeyGenerated(k) ==
    /\ tpmCalls[k].op = "EK"
    /\ k > 1
    /\ tpmCalls[k - 1].op = "getEK"
    /\ tpmCalls[k].err = "nil"

\* C25: no call the Key Locator makes on the TPM generates key material:
\* tpm.EK is never reached through getEK, the path that has the key pair of
\* the certificate generated in the TPM
C25_TPMIsOnlyRead ==
    \A k \in 1..Len(tpmCalls) : ~KeyGenerated(k)

\* ------------------------------------------------------------------------
\* The audit command: privilege.Elevate, audit.run and the exit code of main
\* ------------------------------------------------------------------------
ErrSilence == "silence"

AuditCall(pr, op, err) == [proc |-> pr, op |-> op, err |-> err]

\* what tpm.GetEKCertificate gives audit.run: a response, an error, or the
\* panic of search on the certificate of a failed tpm.EK
GetEKOutcomes ==
    {[resp |-> [Certificate |-> "EK certificate", Manufacturer |-> m], err |-> Nil] :
        m \in Manufacturers}
    \cup {[resp |-> NoOut, err |-> Err("failed to open TPM", "TPM failure")],
          [resp |-> NoOut, err |-> Err("panic", "nil pointer dereference")]}

\* the vendors of the trusted bundle
Vendors == {"IFX"}

\* the certificates an audit run reads from the TPM: those with one issuer
\* URL and one distribution point at most
AuditEKs ==
    {c \in EKCerts : Len(c.IssuingCertificateURL) <= 1 /\ Len(c.CRLDistributionPoints) <= 1}

\* how starting the elevated process can end: os.Executable or os.Getwd
\* fails, sudo or ShellExecuteExW does not start the program, or it runs
LaunchAnswers == {"no executable", "refused", "started"}

\* main that takes every return of the command for a success
exitCodeOf_AlwaysZero(err) == 0

\* main, lines 33-38; a panic is not recovered and ends the process with 2
exitCodeOf(err) ==
    IF err = Nil THEN 0
    ELSE IF err.kind = "panic" THEN 2
    ELSE 1

\* the vendor test that lets every manufacturer through
vendorSupported_Any(m) == TRUE

\* audit.run, line 282
vendorSupported(m) == m \in Vendors

\* Elevate that goes on with the TPM read when the elevated process could not
\* be started
elevateNext_GoOnAfterFailure(needs, launch) ==
    IF ~needs THEN "read"
    ELSE IF launch = "started" THEN "child"
    ELSE "read"

\* Elevate: the calling process goes on to the TPM read, waits for the
\* elevated process, or returns an error
elevateNext(needs, launch) ==
    IF ~needs THEN "read"
    ELSE IF launch = "started" THEN "child"
    ELSE "error"

\* the exit code of the parent once the elevated process ended with code:
\* os.Exit(status.ExitStatus()) with sudo, an error of RunAsAndWait for a
\* code other than 0 on windows
forward(pf, code) ==
    IF code = 0 THEN 0
    ELSE IF pf = "linux" THEN code
    ELSE exitCodeOf(Err("failed to elevate privileges", "elevated process exited with code"))

InitAudit ==
    /\ platform \in {"linux", "windows"}
    /\ proc = "parent"
    /\ stage = "elevate"
    /\ exit = [parent |-> Alive("running"), child |-> Alive("none")]
    /\ auditLog = <<>>
    /\ NoCheck
    /\ NoSearch
    /\ NoSession
    /\ unit = NoCall

\* the process of the pipeline ends with code
ProcExit(code) ==
    /\ stage' = "exited"
    /\ exit' = [exit EXCEPT ![proc] = Ended(code)]

\* audit.run, lines 258-260, and Elevate; the elevated process does not
\* need elevation
AuditElevate ==
    /\ stage = "elevate"
    /\ \E needs \in (IF proc = "child" THEN {FALSE} ELSE BOOLEAN),
          launch \in LaunchAnswers :
         LET next == elevateNext(needs, launch)
         IN  /\ auditLog' = Append(auditLog,
                    AuditCall(proc, "Elevate",
                              CASE next = "read" /\ ~needs -> "nil"
                                [] next = "child" -> "re-executed"
                                [] OTHER -> launch))
             /\ CASE next = "read" ->
                       stage' = "read" /\ UNCHANGED <<proc, exit>>
                  [] next = "child" ->
                       /\ proc' = "child"
                       /\ stage' = "elevate"
                       /\ exit' = [parent |-> Alive("waiting"), child |-> Alive("running")]
                  [] OTHER ->
                       /\ ProcExit(exitCodeOf(Err("failed to elevate privileges", launch)))
                       /\ UNCHANGED proc
    /\ UNCHANGED <<platform, checkVars, unit, tpmVars, sessionVars>>

\* audit.run, lines 262-267
AuditReadEK ==
    /\ stage = "read"
    /\ \E o \in GetEKOutcomes :
         /\ got' = o
         /\ auditLog' = Append(auditLog, AuditCall(proc, "GetEKCertificate", o.err.kind))
         /\ IF o.err = Nil
            THEN stage' = "bundle" /\ UNCHANGED exit
            ELSE IF o.err.kind = "panic"
            THEN ProcExit(exitCodeOf(o.err))
            ELSE ProcExit(exitCodeOf(Err("failed to read EK certificate", o.err.kind)))
    /\ UNCHANGED <<platform, proc, info, checkVars, unit, tpmVars>>

\* audit.run, lines 270-279
AuditLoadBundle ==
    /\ stage = "bundle"
    /\ \E answer \in {"nil", "bundle unavailable"} :
         /\ auditLog' = Append(auditLog, AuditCall(proc, "GetTrustedBundle", answer))
         /\ IF answer = "nil"
            THEN stage' = "vendor" /\ UNCHANGED exit
            ELSE ProcExit(exitCodeOf(Err("failed to get trusted bundle", answer)))
    /\ UNCHANGED <<platform, proc, checkVars, unit, tpmVars, sessionVars>>

\* audit.run, lines 282-291
AuditVendorCheck ==
    /\ stage = "vendor"
    /\ IF vendorSupported(got.resp.Manufacturer)
       THEN /\ auditLog' = Append(auditLog, AuditCall(proc, "GetVendors", "nil"))
            /\ stage' = "check"
            /\ UNCHANGED exit
       ELSE /\ auditLog' = Append(auditLog,
                                  AuditCall(proc, "GetVendors", "unsupported manufacturer"))
            /\ ProcExit(exitCodeOf(Err(ErrSilence, "")))
    /\ UNCHANGED <<platform, proc, checkVars, unit, tpmVars, sessionVars>>

\* audit.run, lines 298-313: NewEKChecker with the bundle and the default
\* downloader, and the call of Check on the certificate of the TPM
AuditStartCheck ==
    /\ stage = "check"
    /\ auditLog' = auditLog \o <<AuditCall(proc, "NewEKChecker", "nil"),
                                  AuditCall(proc, "Check", "called")>>
    /\ callerCfg' \in [EK : AuditEKs, SkipRevocationCheck : BOOLEAN]
    /\ downloader' = [enabled |-> TRUE, maxDownloads |-> MaxUrls]
    /\ cfg' = callerCfg'
    /\ pc' = "start"
    /\ stage' = "checking"
    /\ UNCHANGED <<issuerUrls, issuers, crlUrls, idx, result, trace>>
    /\ UNCHANGED <<platform, proc, exit, unit, tpmVars, sessionVars>>

\* audit.run, lines 313-319, and main
AuditAfterCheck ==
    /\ stage = "checking"
    /\ pc = "done"
    /\ auditLog' = Append(auditLog, AuditCall(proc, "Check returned", result.kind))
    /\ ProcExit(exitCodeOf(IF result = Nil THEN Nil
                           ELSE IF result.kind = "panic" THEN result
                           ELSE Err(ErrSilence, "")))
    /\ UNCHANGED <<platform, proc, checkVars, unit, tpmVars, sessionVars>>

\* Elevate of the parent, after the elevated process ended
ParentForward ==
    /\ exit.parent.state = "waiting"
    /\ exit.child.state = "exited"
    /\ exit' = [exit EXCEPT !.parent = Ended(forward(platform, exit.child.code))]
    /\ UNCHANGED <<platform, proc, stage, auditLog, checkVars, unit, tpmVars, sessionVars>>

\* elevateWindows: RunAsAndWait gives up after its timeout, the elevated
\* process still running
ParentTimeout ==
    /\ platform = "windows"
    /\ exit.parent.state = "waiting"
    /\ exit.child.state = "running"
    /\ exit' = [exit EXCEPT !.parent =
                   Ended(exitCodeOf(Err("failed to elevate privileges", "timed out")))]
    /\ UNCHANGED <<platform, proc, stage, auditLog, checkVars, unit, tpmVars, sessionVars>>

NextAudit ==
    \/ AuditElevate
    \/ AuditReadEK
    \/ AuditLoadBundle
    \/ AuditVendorCheck
    \/ AuditStartCheck
    \/ CheckBegin
    \/ FetchIssuer
    \/ BeginRevocation
    \/ CheckCRL
    \/ VerifyAnchor
    \/ AuditAfterCheck
    \/ ParentForward
    \/ ParentTimeout

SpecAudit == InitAudit /\ [][NextAudit]_vars

Exited(pr) == exit[pr].state = "exited"
Logged(pr, op) ==
    \E k \in 1..Len(auditLog) : auditLog[k].proc = pr /\ auditLog[k].op = op
LoggedWith(pr, op, err) ==
    \E k \in 1..Len(auditLog) :
        auditLog[k].proc = pr /\ auditLog[k].op = op /\ auditLog[k].err = err
\* the pipeline ran to the end in process pr, Check returning nil
Trusted(pr) == LoggedWith(pr, "Check returned", "nil")
\* the process that ran, or runs, the pipeline
Runner == proc

\* C23: a process that exits does so with code 0 exactly when the pipeline
\* ran to the end with Check returning nil, in that process or in the elevated
\* process it waited for, and with code 1 after every other outcome
C23_ExitCodeZeroIffTrusted ==
    /\ Exited(Runner) =>
          /\ exit[Runner].code = 0 <=> Trusted(Runner)
          /\ exit[Runner].code \in {0, 1}
    /\ Runner = "child" /\ Exited("parent") =>
          /\ exit.parent.code = 0 => Exited("child") /\ Trusted("child")
          /\ Exited("child") /\ ~Trusted("child") => exit.parent.code # 0
          /\ exit.parent.code \in {0, 1}

\* C24: when the manufacturer of the TPM is not a vendor of the bundle, the
\* test of the vendors is the last call of audit.run, which ends with exit
\* code 1: no checker is built, Check is not called and nothing is fetched;
\* Check is only called for a manufacturer of the vendor set
C24_UnsupportedManufacturerStopsTheRun ==
    /\ LoggedWith(Runner, "GetVendors", "unsupported manufacturer") =>
          /\ auditLog[Len(auditLog)].op = "GetVendors"
          /\ ~Logged(Runner, "NewEKChecker") /\ ~Logged(Runner, "Check")
          /\ pc = "off" /\ trace = <<>>
          /\ Exited(Runner) /\ exit[Runner].code = 1
    /\ Logged(Runner, "Check") \/ pc # "off" =>
          /\ got.err = Nil
          /\ got.resp.Manufacturer \in Vendors
          /\ LoggedWith(Runner, "GetVendors", "nil")

\* the elevated process found a manufacturer that is not a vendor
C24_Witness ==
    /\ Runner = "child"
    /\ Exited("child")
    /\ got.err = Nil /\ got.resp.Manufacturer \notin Vendors
    /\ LoggedWith("child", "GetVendors", "unsupported manufacturer")

\* C27: the calling process goes on to the TPM read only after an Elevate
\* that found no elevation needed and started no process; when elevation is
\* needed the calling process makes no further call of the pipeline: it
\* waits for the elevated process and exits with code 0 only if that one
\* did, or it ends with the error of Elevate
C27_ElevatedParentNeverReadsTheTPM ==
    /\ \A k \in 1..Len(auditLog) :
          auditLog[k].proc = "parent" /\ auditLog[k].op # "Elevate" =>
              /\ auditLog[1] = AuditCall("parent", "Elevate", "nil")
              /\ Runner = "parent"
              /\ exit.child.state = "none"
    /\ Len(auditLog) >= 1 /\ auditLog[1].err # "nil" =>
          /\ \A k \in 2..Len(auditLog) : auditLog[k].proc = "child"
          /\ auditLog[1].err = "re-executed" =>
                /\ Runner = "child"
                /\ exit.parent.state \in {"waiting", "exited"}
                /\ Exited("parent") /\ exit.parent.code = 0 =>
                      Exited("child") /\ exit.child.code = 0
          /\ auditLog[1].err # "re-executed" =>
                /\ Len(auditLog) = 1
                /\ Exited("parent") /\ exit.parent.code = 1
                /\ exit.child.state = "none"

\* the elevated process ran the pipeline to a failure that the parent forwarded
C27_Witness ==
    /\ LoggedWith("parent", "Elevate", "re-executed")
    /\ Logged("child", "GetEKCertificate")
    /\ Exited("child") /\ exit.child.code = 1
    /\ Exited("parent") /\ exit.parent.code = 1

\* ------------------------------------------------------------------------
\* Check: requests and transport failures
\* ------------------------------------------------------------------------
NoTwice(events) ==
    \A i, j \in 1..Len(events) : i # j => events[i].url # events[j].url
\* a request that client.Do did not complete: transport error, timeout or
\* cancellation
TransportFailure(e) == IsRequest(e) /\ e.res = "transport"
TransportIsTerminal ==
    \A i \in 1..Len(trace) :
        TransportFailure(trace[i]) =>
            /\ i = Len(trace)
            /\ Done
            /\ result # Nil
            /\ result.kind = IF trace[i].op = "GET.issuer"
                              THEN "failed to download issuer certificate"
                              ELSE "failed to download CRL"
            /\ AnchorCalls = <<>>

\* C26 as stated: no URL is requested twice for an issuer, none twice for a
\* list, and a request that fails in transport ends the run
C26_AsStated ==
    /\ NoTwice(IssuerGets)
    /\ NoTwice(CrlGets)
    /\ TransportIsTerminal

\* C26: every kept entry of the issuer list and of the distribution points
\* is requested at most once, in the order of the list, an address listed
\* twice being requested once per entry; a request that fails in transport is
\* the last event of the run: Check returns the download error and
\* VerifyCertificate is not called
C26_EachEntryRequestedOnce ==
    /\ HasEK =>
          /\ Len(IssuerGets) <= Len(KeepSupported(EK.IssuingCertificateURL))
          /\ \A k \in 1..Len(IssuerGets) :
                IssuerGets[k].url = KeepSupported(EK.IssuingCertificateURL)[k]
          /\ Len(CrlGets) <= Len(KeepSupported(EK.CRLDistributionPoints))
          /\ \A k \in 1..Len(CrlGets) :
                CrlGets[k].url = KeepSupported(EK.CRLDistributionPoints)[k]
    /\ ~HasEK => Requests = <<>>
    /\ TransportIsTerminal

\* an issuer address listed twice was requested twice, then the request for
\* the second list failed in transport
C26_Witness ==
    /\ Done /\ HasEK
    /\ Len(IssuerGets) = 2 /\ IssuerGets[1].url = IssuerGets[2].url
    /\ Len(CrlGets) = 2
    /\ CrlGets[1].res = "ok" /\ TransportFailure(CrlGets[2])
    /\ trace[Len(trace)] = CrlGets[2]

\* ------------------------------------------------------------------------
\* Check called twice on one checker with one configuration
\* ------------------------------------------------------------------------
InitRepeat ==
    /\ callerCfg \in [EK : AuditEKs \cup {NoCert}, SkipRevocationCheck : BOOLEAN]
    /\ downloader \in [enabled : BOOLEAN, maxDownloads : {MaxUrls - 1, MaxUrls}]
    /\ cfg = callerCfg
    /\ pc = "start"
    /\ issuerUrls = <<>>
    /\ issuers = <<>>
    /\ crlUrls = <<>>
    /\ idx = 0
    /\ result = Nil
    /\ trace = <<>>
    /\ unit = NoCall
    /\ NoSearch
    /\ NoSession
    /\ NoAudit

\* the caller keeps what the first call returned and calls Check again with
\* the configuration it holds: cfg and the locals of Check are those of a new
\* call, the checker and its downloader are the same
CheckAgain ==
    /\ pc = "done"
    /\ unit = NoCall
    /\ unit' = [fn |-> "Check", result |-> result, trace |-> trace]
    /\ cfg' = callerCfg
    /\ pc' = "start"
    /\ issuerUrls' = <<>>
    /\ issuers' = <<>>
    /\ crlUrls' = <<>>
    /\ idx' = 0
    /\ result' = Nil
    /\ trace' = <<>>
    /\ UNCHANGED <<callerCfg, downloader, tpmVars, sessionVars, auditVars>>

NextRepeat ==
    \/ CheckBegin
    \/ FetchIssuer
    \/ BeginRevocation
    \/ CheckCRL
    \/ VerifyAnchor
    \/ CheckAgain

SpecRepeat == InitRepeat /\ [][NextRepeat]_vars

SecondRun == unit # NoCall
\* a call starts from the configuration of the caller and with nothing fetched
FreshStart ==
    pc = "start" =>
        /\ cfg = callerCfg
        /\ issuerUrls = <<>> /\ issuers = <<>> /\ crlUrls = <<>>
        /\ trace = <<>> /\ result = Nil
\* the second call got the answers of the first and returned what it returned
SameAnswersSameResult ==
    SecondRun /\ Done /\ trace = unit.trace => result = unit.result
\* the issuers of a call are those its own requests brought, in order
OwnIssuersOnly ==
    Len(issuers) = Len(SelectSeq(IssuerGets, Passed))

\* C28: no step of Check changes the configuration of its caller, the
\* downgrade of SkipRevocationCheck included; a second call starts from that
\* configuration with no issuer and no list of the first, holds only the
\* issuers it fetched itself, and returns what the first returned when it
\* gets the same answers
C28_CheckLeavesCallerConfig ==
    /\ [][callerCfg' = callerCfg]_vars
    /\ [](FreshStart /\ SameAnswersSameResult /\ OwnIssuersOnly)

\* the second call of a run that downgraded SkipRevocationCheck and fetched an
\* issuer: both calls trusted the certificate
C28_Witness ==
    /\ SecondRun /\ Done
    /\ cfg.SkipRevocationCheck /\ ~callerCfg.SkipRevocationCheck
    /\ Len(issuers) = 1
    /\ result = Nil /\ unit.result = Nil

\* ------------------------------------------------------------------------
\* package sliceutil: Filter
\* ------------------------------------------------------------------------
\* the elements of a slice and the values fn maps them to
Elems == {1, 2, 3}
Mapped == {1, 2}
\* fn: for every element the value s and whether it is included
FilterFns == [Elems -> [s : Mapped, include : BOOLEAN]]
\* the function that includes every element as itself
Include == [e \in Elems |-> [s |-> e, include |-> TRUE]]

\* Filter that appends every included value
RECURSIVE FilterFrom_KeepDuplicates(_, _, _, _, _)
FilterFrom_KeepDuplicates(ts, fn, i, ss, seen) ==
    IF i > Len(ts) THEN ss
    ELSE IF fn[ts[i]].include
    THEN FilterFrom_KeepDuplicates(ts, fn, i + 1, Append(ss, fn[ts[i]].s), seen)
    ELSE FilterFrom_KeepDuplicates(ts, fn, i + 1, ss, seen)

\* the loop of Filter from element i on, ss and seen as the loop found them
RECURSIVE FilterFrom(_, _, _, _, _)
FilterFrom(ts, fn, i, ss, seen) ==
    IF i > Len(ts) THEN ss
    ELSE IF fn[ts[i]].include /\ fn[ts[i]].s \notin seen
    THEN FilterFrom(ts, fn, i + 1, Append(ss, fn[ts[i]].s), seen \cup {fn[ts[i]].s})
    ELSE FilterFrom(ts, fn, i + 1, ss, seen)

\* Filter: ss starts as make([]S, 0, len(ts)), a slice that is not nil
Filter(ts, fn) == [nil |-> FALSE, elems |-> FilterFrom(ts, fn, 1, <<>>, {})]

InitFilter ==
    /\ unit \in [fn : {"pending"},
                 ts : SeqsUpTo(Elems, MaxLen),
                 f : FilterFns,
                 out : {NoOut}]
    /\ NoCheck
    /\ NoSearch
    /\ NoSession
    /\ NoAudit

CallFilter ==
    /\ unit.fn = "pending"
    /\ unit' = [unit EXCEPT !.fn = "Filter", !.out = Filter(unit.ts, unit.f)]
    /\ UNCHANGED outsideUnit

\* Filter applied to the result of Filter, every element included as itself
CallFilterAgain ==
    /\ unit.fn = "Filter"
    /\ unit' = [fn |-> "Filter again",
                ts |-> unit.out.elems,
                f |-> Include,
                out |-> Filter(unit.out.elems, Include)]
    /\ UNCHANGED outsideUnit

NextFilter ==
    \/ CallFilter
    \/ CallFilterAgain

SpecFilter == InitFilter /\ [][NextFilter]_vars

Filtered == unit.fn \in {"Filter", "Filter again"}
\* the positions of ts whose element fn includes
IncludedAt == {i \in 1..Len(unit.ts) : unit.f[unit.ts[i]].include}
ValueAt(i) == unit.f[unit.ts[i]].s
\* the first included position of ts that gives value v
FirstAt(v) == CHOOSE i \in IncludedAt :
                  /\ ValueAt(i) = v
                  /\ \A j \in IncludedAt : ValueAt(j) = v => i <= j

\* C29: the result of Filter holds exactly the values fn gives for the
\* elements it includes, every value once and in the order of the first
\* element that gives it; it is an empty slice, never nil, when no element is
\* included; Filter of a result, every element included as itself, returns
\* that result
C29_FilterKeepsFirstOccurrences ==
    Filtered =>
        LET ss == unit.out.elems
        IN  /\ ~unit.out.nil
            /\ Range(ss) = {ValueAt(i) : i \in IncludedAt}
            /\ \A j, k \in 1..Len(ss) : j # k => ss[j] # ss[k]
            /\ \A j, k \in 1..Len(ss) : j < k => FirstAt(ss[j]) < FirstAt(ss[k])
            /\ IncludedAt = {} => ss = <<>>
            /\ unit.fn = "Filter again" => ss = unit.ts

\* three elements, the first left out, the other two included with one value:
\* the value is kept once
C29_Witness ==
    /\ unit.fn = "Filter"
    /\ Len(unit.ts) = 3
    /\ IncludedAt = {2, 3}
    /\ ValueAt(2) = ValueAt(3)
    /\ unit.out.elems = <<ValueAt(2)>>

\* ------------------------------------------------------------------------
\* package windowsexec: RunAsAndWait
\* ------------------------------------------------------------------------
\* a count of milliseconds is written in two limbs, <<high, low>>, the low
\* one of 16 bits: uint32 keeps 16 bits of the high one
Limb == 65536
Ms(hi, lo) == <<hi, lo>>
MsLess(a, b) == a[1] < b[1] \/ (a[1] = b[1] /\ a[2] < b[2])
\* a time.Duration: its sign, its whole milliseconds, and whether
\* nanoseconds remain beyond them
Duration(neg, ms, rest) == [neg |-> neg, ms |-> ms, rest |-> rest]
\* windows.INFINITE, 0xFFFFFFFF
INFINITE == Ms(Limb - 1, Limb - 1)

\* the timeouts a caller passes: negative, zero, half a millisecond, one
\* millisecond, the five minutes of elevateWindows, and three around 2^32 ms
Timeouts ==
    {Duration(TRUE, Ms(0, 1), FALSE),
     Duration(FALSE, Ms(0, 0), FALSE),
     Duration(FALSE, Ms(0, 0), TRUE),
     Duration(FALSE, Ms(0, 1), FALSE),
     Duration(FALSE, Ms(4, 37856), FALSE),
     Duration(FALSE, Ms(Limb - 1, Limb - 1), FALSE),
     Duration(FALSE, Ms(Limb, 0), FALSE),
     Duration(FALSE, Ms(Limb, 1), FALSE)}

\* when the elevated process exits, counted from the start of the wait
Never == [never |-> TRUE]
ExitTimes ==
    {Never,
     Duration(FALSE, Ms(0, 0), FALSE),
     Duration(FALSE, Ms(0, 0), TRUE),
     Duration(FALSE, Ms(0, 2), FALSE),
     Duration(FALSE, Ms(5, 32320), FALSE),
     Duration(FALSE, Ms(Limb, 5), FALSE)}

\* how the launch ends: UTF16PtrFromString fails, ShellExecuteExW fails,
\* it succeeds without a process handle, or it gives one
RunAsLaunches == {"conversion failed", "refused", "null handle", "started"}

Positive(d) == ~d.neg /\ (d.ms # Ms(0, 0) \/ d.rest)
\* Duration.Milliseconds of a positive duration
Milliseconds(d) == d.ms
\* the conversion uint32(waitTime)
ToUint32(ms) == Ms(ms[1] % Limb, ms[2])
\* lines 104-107 and the conversion of line 110
waitTimeOf(timeout) ==
    IF Positive(timeout) THEN ToUint32(Milliseconds(timeout)) ELSE INFINITE

\* WaitForSingleObject on a process that exits at exitAt: it does not return
\* while the process runs and the wait is INFINITE
WaitReturns(wait, exitAt) == wait # INFINITE \/ exitAt # Never
WaitForSingleObject(wait, exitAt, fails) ==
    IF fails THEN "WAIT_FAILED"
    ELSE IF exitAt = Never THEN "WAIT_TIMEOUT"
    ELSE IF wait = INFINITE THEN "WAIT_OBJECT_0"
    ELSE IF MsLess(exitAt.ms, wait) \/ (exitAt.ms = wait /\ ~exitAt.rest)
    THEN "WAIT_OBJECT_0"
    ELSE "WAIT_TIMEOUT"

\* RunAsAndWait: the error it returns and the calls it made on the handle
RunAsAndWait(in) ==
    IF in.launch = "conversion failed"
    THEN [err |-> "converting to ptr", calls |-> <<>>]
    ELSE IF in.launch = "refused"
    THEN [err |-> "calling shellExecuteExW", calls |-> <<"ShellExecuteExW">>]
    ELSE IF in.launch = "null handle"
    THEN [err |-> "unexpected null hProcess handle", calls |-> <<"ShellExecuteExW">>]
    ELSE LET w == WaitForSingleObject(waitTimeOf(in.timeout), in.exitAt, in.waitFails)
             waited == <<"ShellExecuteExW", "WaitForSingleObject">>
         IN  IF w = "WAIT_FAILED"
             THEN [err |-> "waiting for elevated process",
                   calls |-> waited \o <<"CloseHandle">>]
             ELSE IF w = "WAIT_TIMEOUT"
             THEN [err |-> "timed out waiting for elevated process",
                   calls |-> waited \o <<"CloseHandle">>]
             ELSE IF in.codeFails
             THEN [err |-> "getting exit code",
                   calls |-> waited \o <<"GetExitCodeProcess", "CloseHandle">>]
             ELSE IF in.code # 0
             THEN [err |-> "elevated process exited with code",
                   calls |-> waited \o <<"GetExitCodeProcess", "CloseHandle">>]
             ELSE [err |-> "nil",
                   calls |-> waited \o <<"GetExitCodeProcess", "CloseHandle">>]

InitRunAs ==
    /\ unit \in [fn : {"pending"},
                 launch : RunAsLaunches,
                 timeout : Timeouts,
                 exitAt : ExitTimes,
                 code : {0, 1},
                 waitFails : BOOLEAN,
                 codeFails : BOOLEAN,
                 out : {NoOut}]
    /\ NoCheck
    /\ NoSearch
    /\ NoSession
    /\ NoAudit

\* the call returns; a wait without limit for a process that never exits
\* does not
CallRunAsAndWait ==
    /\ unit.fn = "pending"
    /\ \/ unit.launch # "started"
       \/ unit.waitFails
       \/ WaitReturns(waitTimeOf(unit.timeout), unit.exitAt)
    /\ unit' = [unit EXCEPT !.fn = "RunAsAndWait", !.out = RunAsAndWait(unit)]
    /\ UNCHANGED outsideUnit

NextRunAs == CallRunAsAndWait

SpecRunAs == InitRunAs /\ [][NextRunAs]_vars

RunAsReturned == unit.fn = "RunAsAndWait"
\* the process exited within the timeout the caller passed, a timeout of
\* zero or less being no limit
ExitedWithinTimeout ==
    /\ unit.exitAt # Never
    /\ Positive(unit.timeout) =>
          \/ MsLess(unit.exitAt.ms, unit.timeout.ms)
          \/ /\ unit.exitAt.ms = unit.timeout.ms
             /\ unit.exitAt.rest => unit.timeout.rest
HandleClosedOnce ==
    /\ Len(SelectSeq(unit.out.calls, LAMBDA c : c = "CloseHandle")) = 1
    /\ unit.out.calls[Len(unit.out.calls)] = "CloseHandle"

\* C30: when no call of the Windows API on the process handle fails and the
\* timeout is a whole number of milliseconds, RunAsAndWait returns nil
\* exactly when the process was started, exited within the timeout of the
\* caller and gave exit code 0; the handle of a started process is closed
\* once, as the last call
C30_NilIffExitedInTimeWithZero ==
    RunAsReturned =>
        /\ ~unit.waitFails /\ ~unit.codeFails /\ ~unit.timeout.rest =>
              (unit.out.err = "nil"
                  <=> /\ unit.launch = "started"
                      /\ ExitedWithinTimeout
                      /\ unit.code = 0)
        /\ unit.launch = "started" => HandleClosedOnce
        /\ unit.launch # "started" => "CloseHandle" \notin Range(unit.out.calls)

\* ------------------------------------------------------------------------
\* Check: the order of the steps
\* ------------------------------------------------------------------------
IsCrlStep(e) == e.op \in {"GET.crl", "IsValid", "Verify", "IsRevoked"}
\* the step of the loop over the distribution points that comes before op
StepBefore(op) ==
    CASE op = "IsValid" -> "GET.crl"
      [] op = "Verify" -> "IsValid"
      [] op = "IsRevoked" -> "Verify"

\* C31: the pre-checks come before every request, the issuer requests before
\* every step on a revocation list, these steps are taken list after list in
\* the order request, validity, signature, lookup and only when revocation is
\* not skipped, and VerifyCertificate is called at most once, as the last
\* step of the run and after steps that all passed
C31_StepsInOrder ==
    /\ trace # <<>> => HasEK /\ PassesPreChecks
    /\ \A i, j \in 1..Len(trace) :
          i < j /\ IsCrlStep(trace[i]) => ~IsIssuerGet(trace[j])
    /\ \A i \in 1..Len(trace) :
          /\ IsCrlStep(trace[i]) =>
                /\ ~cfg.SkipRevocationCheck
                /\ pc \in {"crls", "anchor", "done"}
                /\ Len(IssuerGets) = Len(KeepSupported(EK.IssuingCertificateURL))
          /\ trace[i].op \in {"IsValid", "Verify", "IsRevoked"} =>
                /\ i > 1
                /\ trace[i - 1].op = StepBefore(trace[i].op)
                /\ trace[i - 1].url = trace[i].url
          /\ IsAnchorCall(trace[i]) =>
                /\ i = Len(trace)
                /\ Done
                /\ \A k \in 1..(i - 1) : Passed(trace[k])
    /\ Len(AnchorCalls) <= 1
    /\ HasEK => IsPrefix(UrlsOf(CrlGets), KeepSupported(EK.CRLDistributionPoints))

\* two issuers, then two lists checked in full, then the bundle, which
\* rejected the certificate
C31_Witness ==
    /\ Done /\ HasEK
    /\ Len(trace) = 11
    /\ \A i \in 1..2 : trace[i].op = "GET.issuer"
    /\ \A i \in {3, 7} :
          /\ trace[i].op = "GET.crl" /\ trace[i + 1].op = "IsValid"
          /\ trace[i + 2].op = "Verify" /\ trace[i + 3].op = "IsRevoked"
    /\ IsAnchorCall(trace[11]) /\ trace[11].res # "nil"

\* ------------------------------------------------------------------------
\* Check: the list of a disabled downloader
\* ------------------------------------------------------------------------
\* the loop over the distribution points reached a URL with the downloader
\* disabled: downloadCRL gave no list and no error
NoListNoError ==
    /\ ~downloader.enabled
    /\ pc = "done"
    /\ crlUrls # <<>>
    /\ CrlGets = <<>>

\* C32: a run whose downloadCRL gave no list and no error does not end in
\* the crash of a call on the nil list
C32_NilListIsNeverUsed ==
    /\ Done => result.kind # "panic"
    /\ NoListNoError => result.kind # "panic"

\* ------------------------------------------------------------------------
\* search: a persisted handle whose certificate cannot be read
\* ------------------------------------------------------------------------
\* tpm.EK failed on the template of the first persisted handle
PersistedReadFailed ==
    /\ Len(templates) >= 1
    /\ tpmCalls # <<>>
    /\ tpmCalls[Len(tpmCalls)].op = "EK"
    /\ tpmCalls[Len(tpmCalls)].err # "nil"

\* C33: when tpm.EK fails on the template of a persisted handle, search
\* returns an error that carries that failure: no success with an empty
\* certificate, no read of the certificate that is missing
C33_PersistedFailureIsReturned ==
    SearchDone /\ PersistedReadFailed =>
        /\ found.err # Nil
        /\ found.err.kind # "panic"
        /\ found.err.cause = errGet
        /\ found.ek = ZeroEK

\* ------------------------------------------------------------------------
\* Check: the bundle and the issuers
\* ------------------------------------------------------------------------
\* the issuer requests of the run that brought a certificate
IssuersFetched == SelectSeq(IssuerGets, Passed)

\* C34: VerifyCertificate is called, and Check returns nil, only in a run
\* that fetched at least one issuer certificate
C34_AnchorNeedsAFetchedIssuer ==
    /\ pc = "anchor" \/ AnchorCalls # <<>> => Len(IssuersFetched) >= 1 /\ Len(issuers) >= 1
    /\ Done /\ result = Nil => Len(IssuersFetched) >= 1

\* ------------------------------------------------------------------------
\* package privilege: the chain of re-executed processes
\* ------------------------------------------------------------------------
\* what NeedsElevation looks at: the effective user and /dev/tpmrm0 (absent,
\* not openable by this user, or openable) on linux, the token on windows
Devices == {"missing", "restricted", "open"}
Users == {0, 1000}
Credentials == [euid : Users, device : Devices, elevated : BOOLEAN]

\* NeedsElevation that only looks at the device
NeedsElevation_DeviceOnly(pf, c) ==
    IF pf = "linux"
    THEN c.device # "open"
    ELSE ~c.elevated

\* NeedsElevation, linux lines 18-33, and needsElevationWindows
NeedsElevation(pf, c) ==
    IF pf = "linux"
    THEN IF c.euid = 0 THEN FALSE
         ELSE IF c.device = "missing" THEN TRUE
         ELSE IF c.device = "restricted" THEN TRUE
         ELSE FALSE
    ELSE ~c.elevated

\* the credentials of the process started by sudo, by the runas verb: root
\* opens a device that exists
reexecuted(pf, c) ==
    IF pf = "linux"
    THEN [c EXCEPT !.euid = 0,
                   !.device = IF c.device = "missing" THEN "missing" ELSE "open"]
    ELSE [c EXCEPT !.elevated = TRUE]

\* the innermost process is at `at`; `waiting` processes wait in Elevate for
\* the process they started; code is the exit code of the last exit
InitElevate ==
    /\ unit \in [fn : {"Elevate"},
                 platform : {"linux", "windows"},
                 cred : Credentials,
                 execs : {0},
                 waiting : {0},
                 at : {"elevate"},
                 code : {0}]
    /\ NoCheck
    /\ NoSearch
    /\ NoSession
    /\ NoAudit

\* Elevate in the innermost process
CallElevate ==
    /\ unit.fn = "Elevate" /\ unit.at = "elevate"
    /\ IF ~NeedsElevation(unit.platform, unit.cred)
       THEN unit' = [unit EXCEPT !.at = "pipeline"]
       ELSE \E launch \in LaunchAnswers :
              IF launch = "started"
              THEN /\ unit.execs < MaxExecs
                   /\ unit' = [unit EXCEPT !.execs = @ + 1,
                                           !.waiting = @ + 1,
                                           !.cred = reexecuted(unit.platform, unit.cred)]
              ELSE unit' = [unit EXCEPT
                               !.at = "exited",
                               !.code = exitCodeOf(Err("failed to elevate privileges", launch))]
    /\ UNCHANGED outsideUnit

\* the rest of audit.run in the innermost process, down to its exit
RunPipeline ==
    /\ unit.fn = "Elevate" /\ unit.at = "pipeline"
    /\ \E err \in {Nil, Err(ErrSilence, ""), Err("panic", "nil pointer dereference")} :
         unit' = [unit EXCEPT !.at = "exited", !.code = exitCodeOf(err)]
    /\ UNCHANGED outsideUnit

\* a waiting process sees the process it started exit, and exits
ForwardExit ==
    /\ unit.fn = "Elevate" /\ unit.at = "exited"
    /\ unit.waiting > 0
    /\ unit' = [unit EXCEPT !.waiting = @ - 1, !.code = forward(unit.platform, unit.code)]
    /\ UNCHANGED outsideUnit

\* elevateWindows: RunAsAndWait times out and the waiting process exits, the
\* one it started still running
WaitTimesOut ==
    /\ unit.fn = "Elevate" /\ unit.at # "exited"
    /\ unit.platform = "windows"
    /\ unit.waiting > 0
    /\ unit' = [unit EXCEPT !.waiting = @ - 1]
    /\ UNCHANGED outsideUnit

NextElevate ==
    \/ CallElevate
    \/ RunPipeline
    \/ ForwardExit
    \/ WaitTimesOut

SpecElevate == InitElevate /\ [][NextElevate]_vars
\* every process that can take a step is scheduled
SpecElevateLive == SpecElevate /\ WF_vars(NextElevate)

AllExited == unit.fn = "Elevate" /\ unit.at = "exited" /\ unit.waiting = 0

\* C35: one invocation re-executes the program at most once, the process it
\* starts does not need elevation, and every process of the invocation
\* ends with an exit code
C35_ElevationDoesNotLoop ==
    /\ [](unit.fn = "Elevate" =>
            /\ unit.execs <= 1
            /\ unit.execs = 1 => ~NeedsElevation(unit.platform, unit.cred))
    /\ <>AllExited

\* root, started by sudo where /dev/tpmrm0 is absent, did not ask for
\* elevation again; the run is over
C35_Witness ==
    /\ AllExited
    /\ unit.platform = "linux"
    /\ unit.execs = 1
    /\ unit.cred.device = "missing"

\* ------------------------------------------------------------------------
\* Check: a configuration without certificate
\* ------------------------------------------------------------------------
\* C36: Check on a configuration whose EK is nil returns the error of an
\* invalid configuration at its first step: no pre-check ran, the
\* configuration is as it came, nothing was requested and VerifyCertificate
\* was not called
C36_AbsentCertificateIsInvalidConfig ==
    ~HasEK =>
        /\ pc \in {"start", "done"}
        /\ trace = <<>>
        /\ cfg = callerCfg
        /\ issuerUrls = <<>> /\ crlUrls = <<>>
        /\ Done => result = Err("invalid check config", "EK certificate must be provided")

C36_Witness ==
    /\ ~HasEK
    /\ Done
    /\ result.kind = "invalid check config"

\* ------------------------------------------------------------------------
\* getEK, one call at a time
\* ------------------------------------------------------------------------
InitGetEKCall ==
    /\ unit \in [fn : {"pending"},
                 alg : {TPMAlgECC, TPMAlgRSA},
                 certs : SeqsUpTo(EKCertTemplates, MaxTemplates),
                 answer : EKAnswers,
                 out : {NoOut}]
    /\ NoCheck
    /\ NoSearch
    /\ NoSession
    /\ NoAudit

CallGetEK ==
    /\ unit.fn = "pending"
    /\ unit' = [unit EXCEPT !.fn = "getEK",
                            !.out = getEK(unit.alg, unit.certs, unit.answer)]
    /\ UNCHANGED outsideUnit

NextGetEKCall == CallGetEK

SpecGetEKCall == InitGetEKCall /\ [][NextGetEKCall]_vars

\* the positions of the discovered templates of the type asked for
OfType == {i \in 1..Len(unit.certs) : unit.certs[i].Type = unit.alg}
\* the calls of tpm.EK that getEK made
EKCalls == SelectSeq(unit.out.calls, LAMBDA c : c.op = "EK")

\* C37: getEK returns ErrEKCertNotFound with no call of tpm.EK exactly when
\* no discovered template has the type asked for; otherwise it calls tpm.EK
\* once, with the first template of that type, and returns the EK and the
\* error of that call as they are
C37_GetEKUsesFirstTemplateOfType ==
    unit.fn = "getEK" =>
        /\ (unit.out.err = ErrEKCertNotFound /\ EKCalls = <<>>) <=> OfType = {}
        /\ OfType = {} => unit.out.ek = ZeroEK
        /\ OfType # {} =>
              LET first == CHOOSE i \in OfType : \A j \in OfType : i <= j
              IN  /\ Len(EKCalls) = 1
                  /\ EKCalls[1].template = unit.certs[first]
                  /\ unit.out.err = unit.answer
                  /\ unit.out.ek = tpmEK(unit.certs[first], unit.answer).ek

\* two different RSA templates: the certificate of the first one
C37_Witness ==
    /\ unit.fn = "getEK"
    /\ unit.alg = TPMAlgRSA
    /\ Len(unit.certs) = 2
    /\ unit.certs[1].Type = TPMAlgRSA /\ unit.certs[2].Type = TPMAlgRSA
    /\ unit.certs[1] # unit.certs[2]
    /\ unit.out.err = "nil"
    /\ unit.out.ek.Certificate = unit.certs[1]

\* ------------------------------------------------------------------------
\* check: the numbers in the ceiling errors
\* ------------------------------------------------------------------------
\* C38: the error of the issuer ceiling gives the number of issuer URLs and
\* the limit, the one of the CRL ceiling the number of distribution points
\* and the limit
C38_CeilingErrorReportsItsCount ==
    (Done /\ HasEK) =>
        /\ result.kind = "number of Issuers bigger than the maximum" =>
              /\ result.n = Len(EK.IssuingCertificateURL)
              /\ result.max = downloader.maxDownloads
        /\ result.kind = "number of CRLs bigger than the maximum" =>
              /\ result.n = Len(EK.CRLDistributionPoints)
              /\ result.max = downloader.maxDownloads

====
